---- MODULE Spec2Model ----
(***************************************************************************)
(* The feed-forward network engine of MiniLLM (src/public/js/nav.js,       *)
(* module NeuralEngine): Activations, Losses, Layer, NeuralNetwork.        *)
(*                                                                         *)
(* Numbers.  A JavaScript number is modelled as a record [k, v]: a finite  *)
(* value on a fixed-point grid of Scale steps per unit (k = "fin", v the   *)
(* number of steps), NaN, +Infinity, -Infinity, or the value `undefined`   *)
(* that reading a hole or a missing index of an array yields.  Products    *)
(* and quotients round toward zero to the grid, as floating point rounds   *)
(* to its own grid; Math.exp, Math.tanh, Math.log and Math.sqrt are the    *)
(* grid roundings of the real functions.                                   *)
(*                                                                         *)
(* Arrays are sequences, so index i of the source is index i+1 here.       *)
(***************************************************************************)
EXTENDS Integers, Sequences, FiniteSets, TLC

Scale == 2 * 5

F(n) == [k |-> "fin", v |-> n]
NaN == [k |-> "nan", v |-> 0]
PosInf == [k |-> "inf", v |-> 1]
NegInf == [k |-> "inf", v |-> -1]
Undefined == [k |-> "undef", v |-> 0]

Zero == F(0)
One == F(Scale)

\* integer quotient rounded toward zero
Quot(a, b) ==
  IF b = 0 THEN 0
  ELSE LET q == (IF a < 0 THEN -a ELSE a) \div (IF b < 0 THEN -b ELSE b)
       IN  IF (a < 0) = (b < 0) THEN q ELSE -q

\* ToNumber: undefined becomes NaN in arithmetic
ToNum(a) == IF a.k = "undef" THEN NaN ELSE a

SignOf(x) == IF x.v > 0 THEN 1 ELSE IF x.v < 0 THEN -1 ELSE 0

NegNum(x) == IF x.k = "nan" THEN NaN ELSE [k |-> x.k, v |-> -x.v]

Neg(a) == NegNum(ToNum(a))

AddNum(x, y) ==
  IF x.k = "nan" \/ y.k = "nan" THEN NaN
  ELSE IF x.k = "fin" /\ y.k = "fin" THEN F(x.v + y.v)
  ELSE IF x.k = "fin" THEN y
  ELSE IF y.k = "fin" THEN x
  ELSE IF x.v = y.v THEN x
  ELSE NaN

\* a + b
Add(a, b) == AddNum(ToNum(a), ToNum(b))

\* a - b
Sub(a, b) == AddNum(ToNum(a), NegNum(ToNum(b)))

MulNum(x, y) ==
  IF x.k = "nan" \/ y.k = "nan" THEN NaN
  ELSE IF x.k = "fin" /\ y.k = "fin" THEN F(Quot(x.v * y.v, Scale))
  ELSE IF SignOf(x) = 0 \/ SignOf(y) = 0 THEN NaN
  ELSE IF SignOf(x) = SignOf(y) THEN PosInf
  ELSE NegInf

\* a * b
Mul(a, b) == MulNum(ToNum(a), ToNum(b))

DivNum(x, y) ==
  IF x.k = "nan" \/ y.k = "nan" THEN NaN
  ELSE IF x.k = "inf" /\ y.k = "inf" THEN NaN
  ELSE IF x.k = "inf" THEN (IF (x.v < 0) = (y.v < 0) THEN PosInf ELSE NegInf)
  ELSE IF y.k = "inf" THEN Zero
  ELSE IF y.v = 0
       THEN (IF x.v = 0 THEN NaN ELSE IF x.v > 0 THEN PosInf ELSE NegInf)
  ELSE F(Quot(x.v * Scale, y.v))

\* a / b
Div(a, b) == DivNum(ToNum(a), ToNum(b))

\* a count (an array length, a batch size) as a number
Count(n) == F(n * Scale)

GtNum(x, y) ==
  IF x.k = "nan" \/ y.k = "nan" THEN FALSE
  ELSE IF x.k = "fin" /\ y.k = "fin" THEN x.v > y.v
  ELSE IF x.k = "inf" /\ y.k = "inf" THEN x.v > y.v
  ELSE IF x.k = "inf" THEN x.v > 0
  ELSE y.v < 0

\* a > b: false when either side is NaN
Gt(a, b) == GtNum(ToNum(a), ToNum(b))

MaxNum(x, y) ==
  IF x.k = "nan" \/ y.k = "nan" THEN NaN ELSE IF GtNum(y, x) THEN y ELSE x

MinNum(x, y) ==
  IF x.k = "nan" \/ y.k = "nan" THEN NaN ELSE IF GtNum(x, y) THEN y ELSE x

MathMax(a, b) == MaxNum(ToNum(a), ToNum(b))

MathMin(a, b) == MinNum(ToNum(a), ToNum(b))

\* grid value of 1/(1+exp(-x)) for a finite grid x >= 0
SigmoidGrid(n) ==
  IF n <= 2 THEN 5
  ELSE IF n <= 6 THEN 6
  ELSE IF n <= 10 THEN 7
  ELSE IF n <= 17 THEN 8
  ELSE IF n <= 29 THEN 9
  ELSE 10

\* grid value of tanh(x) for a finite grid x >= 0
TanhGrid(n) ==
  IF n <= 5 THEN n
  ELSE IF n <= 6 THEN 5
  ELSE IF n <= 7 THEN 6
  ELSE IF n <= 9 THEN 7
  ELSE IF n <= 12 THEN 8
  ELSE IF n <= 18 THEN 9
  ELSE 10

\* grid value of ln(p) for a grid p in (0, 1]
LogGrid(n) ==
  IF n <= 1 THEN -23
  ELSE IF n = 2 THEN -16
  ELSE IF n = 3 THEN -12
  ELSE IF n = 4 THEN -9
  ELSE IF n = 5 THEN -7
  ELSE IF n = 6 THEN -5
  ELSE IF n = 7 THEN -4
  ELSE IF n = 8 THEN -2
  ELSE IF n = 9 THEN -1
  ELSE 0

\* largest r with r*r <= n
RECURSIVE IsqrtFrom(_, _)
IsqrtFrom(n, r) == IF (r + 1) * (r + 1) > n THEN r ELSE IsqrtFrom(n, r + 1)

SqrtNum(x) ==
  IF x.k = "nan" THEN NaN
  ELSE IF x.k = "inf" THEN (IF x.v > 0 THEN PosInf ELSE NaN)
  ELSE IF x.v < 0 THEN NaN
  ELSE F(IsqrtFrom(x.v * Scale, 0))

MathSqrt(a) == SqrtNum(ToNum(a))

TanhNum(x) ==
  IF x.k = "nan" THEN NaN
  ELSE IF x.k = "inf" THEN F(x.v * Scale)
  ELSE IF x.v >= 0 THEN F(TanhGrid(x.v))
  ELSE F(-TanhGrid(-x.v))

MathTanh(a) == TanhNum(ToNum(a))

LogNum(x) ==
  IF x.k = "nan" THEN NaN
  ELSE IF x.k = "inf" THEN (IF x.v > 0 THEN PosInf ELSE NaN)
  ELSE IF x.v < 0 THEN NaN
  ELSE IF x.v = 0 THEN NegInf
  ELSE F(LogGrid(x.v))

MathLog(a) == LogNum(ToNum(a))

(***************************************************************************)
(* Activations and Losses: the two registries, and a lookup by name.       *)
(* Both are object literals, so a lookup by a name that is no key of the   *)
(* literal but a member of Object.prototype yields that inherited member:  *)
(* a truthy value that has neither fn nor dfn.                             *)
(***************************************************************************)
ActivationKeys == {"sigmoid", "relu", "tanh", "linear"}
LossKeys == {"mse", "crossEntropy"}
ObjectPrototypeKeys ==
  {"constructor", "toString", "valueOf", "hasOwnProperty", "__proto__"}

\* Activations[name] || Activations.sigmoid
LookupActivation(name) ==
  IF name \in ActivationKeys THEN name
  ELSE IF name \in ObjectPrototypeKeys THEN "inherited"
  ELSE "sigmoid"

\* Losses[lossType] || Losses.mse
LookupLoss(name) ==
  IF name \in LossKeys THEN name
  ELSE IF name \in ObjectPrototypeKeys THEN "inherited"
  ELSE "mse"

SigmoidClampLo == -500
SigmoidClampHi == 500

\* 1 / (1 + Math.exp(-c))
Logistic(c) ==
  IF c.k = "nan" THEN NaN
  ELSE IF c.v >= 0 THEN F(SigmoidGrid(c.v))
  ELSE F(Scale - SigmoidGrid(-c.v))

SigmoidFn(a) ==
  Logistic(MathMax(Count(SigmoidClampLo), MathMin(Count(SigmoidClampHi), a)))

\* Activations[key].fn
ActivationFn(key, x) ==
  CASE key = "sigmoid" -> SigmoidFn(x)
    [] key = "relu" -> MathMax(Zero, x)
    [] key = "tanh" -> MathTanh(x)
    [] key = "linear" -> ToNum(x)

\* Activations[key].dfn
ActivationDfn(key, y) ==
  CASE key = "sigmoid" -> Mul(y, Sub(One, y))
    [] key = "relu" -> IF Gt(y, Zero) THEN One ELSE Zero
    [] key = "tanh" -> Sub(One, Mul(y, y))
    [] key = "linear" -> One

\* reading index i of an array: undefined outside it
At(a, i) == IF i \in DOMAIN a THEN a[i] ELSE Undefined

RECURSIVE SumTo(_, _)
\* f[1] + ... + f[n] accumulated left to right from 0
SumTo(f, n) == IF n = 0 THEN Zero ELSE Add(SumTo(f, n - 1), f[n])

\* the smallest probability cross-entropy admits (1e-15), on the grid
Epsilon == F(1)

ClampProb(p) == MathMax(Epsilon, MathMin(Sub(One, Epsilon), p))

Square(d) == Mul(d, d)

\* -(t * Math.log(p) + (1 - t) * Math.log(1 - p))
CrossEntropyTerm(p, t) ==
  Neg(Add(Mul(t, MathLog(p)), Mul(Sub(One, t), MathLog(Sub(One, p)))))

\* (-t / pc + (1 - t) / (1 - pc))
CrossEntropySlope(pc, t) == Add(Div(Neg(t), pc), Div(Sub(One, t), Sub(One, pc)))

\* Losses[key].fn
LossFn(key, predicted, target) ==
  Div(SumTo([i \in 1..Len(predicted) |->
               IF key = "mse"
               THEN Square(Sub(predicted[i], At(target, i)))
               ELSE CrossEntropyTerm(ClampProb(predicted[i]), At(target, i))],
            Len(predicted)),
      Count(Len(predicted)))

\* Losses[key].dfn
LossDfn(key, predicted, target) ==
  [i \in 1..Len(predicted) |->
     IF key = "mse"
     THEN Div(Mul(Count(2), Sub(predicted[i], At(target, i))),
              Count(Len(predicted)))
     ELSE Div(CrossEntropySlope(ClampProb(predicted[i]), At(target, i)),
              Count(Len(predicted)))]

(***************************************************************************)
(* Layer.  The three cache fields are null until the first forward call;   *)
(* they are assigned together, so one flag (cached) records that they are  *)
(* arrays.  scale and the draws of Math.random are grid values; draw is    *)
(* the function from the position of a Math.random() call to its result.   *)
(***************************************************************************)
XavierScale(inputSize, outputSize) ==
  MathSqrt(Div(Count(2), Count(inputSize + outputSize)))

\* (Math.random() * 2 - 1) * s
Uniform(r, s) == Mul(Sub(Mul(r, Count(2)), One), s)

BiasScale == F(1)

\* new Layer(inputSize, outputSize, activation), its Math.random() calls
\* numbered from `first`
NewLayer(inputSize, outputSize, activation, draw, first) ==
  [inputSize |-> inputSize,
   outputSize |-> outputSize,
   activation |-> LookupActivation(activation),
   activationName |-> activation,
   weights |-> [i \in 1..outputSize |-> [j \in 1..inputSize |->
      Uniform(draw[first + (i - 1) * inputSize + (j - 1)],
              XavierScale(inputSize, outputSize))]],
   biases |-> [i \in 1..outputSize |->
      Uniform(draw[first + outputSize * inputSize + (i - 1)], BiasScale)],
   weightGrads |-> [i \in 1..outputSize |-> [j \in 1..inputSize |-> Zero]],
   biasGrads |-> [i \in 1..outputSize |-> Zero],
   cached |-> FALSE,
   input |-> <<>>,
   output |-> <<>>,
   preActivation |-> <<>>]

RECURSIVE WeightedSum(_, _, _, _)
\* sum = biases[i]; for j < inputSize: sum += weights[i][j] * input[j]
WeightedSum(l, input, i, j) ==
  IF j = 0 THEN l.biases[i]
  ELSE Add(WeightedSum(l, input, i, j - 1), Mul(l.weights[i][j], At(input, j)))

\* Layer.forward once the loop has run: every unit's sum and output
LayerForwardDone(l, input, sum, out) ==
  [layer |-> [l EXCEPT !.cached = TRUE, !.input = input,
                       !.preActivation = sum, !.output = out],
   ret |-> out,
   threw |-> FALSE]

\* Layer.forward stopped by the TypeError of "this.activation.fn(sum)" at
\* unit 0: preActivation[0] is assigned, every other entry is a hole
LayerForwardThrown(l, input, sum) ==
  [layer |-> [l EXCEPT !.cached = TRUE, !.input = input,
                       !.preActivation = [i \in 1..l.outputSize |->
                          IF i = 1 THEN sum[1] ELSE Undefined],
                       !.output = [i \in 1..l.outputSize |-> Undefined]],
   ret |-> <<>>,
   threw |-> TRUE]

LayerForwardSums(l, input, sum) ==
  IF l.activation = "inherited" /\ l.outputSize >= 1
  THEN LayerForwardThrown(l, input, sum)
  ELSE LayerForwardDone(l, input, sum,
         [i \in 1..l.outputSize |-> ActivationFn(l.activation, sum[i])])

\* a forward pass whose sums start from bias plus bias accumulator, so that
\* its result would depend on the accumulator state
LayerForwardReadingGrads(l, input) ==
  LayerForwardSums(l, input,
    [i \in 1..l.outputSize |->
       Add(WeightedSum(l, input, i, l.inputSize), l.biasGrads[i])])

\* a forward pass that caches its input only when the layer has no cache yet
LayerForwardKeepingInput(l, input) ==
  LayerForwardSums([l EXCEPT !.input = IF l.cached THEN l.input ELSE input],
    IF l.cached THEN l.input ELSE input,
    [i \in 1..l.outputSize |-> WeightedSum(l, input, i, l.inputSize)])

\* Layer.forward(input): the layer afterwards, the value returned, and
\* whether a TypeError was thrown
LayerForward(l, input) ==
  LayerForwardSums(l, input,
    [i \in 1..l.outputSize |-> WeightedSum(l, input, i, l.inputSize)])

\* delta of unit i in Layer.backward
Delta(l, outputError, i) ==
  IF l.activationName = "relu"
  THEN Mul(At(outputError, i),
           IF Gt(At(l.preActivation, i), Zero) THEN One ELSE Zero)
  ELSE IF l.activationName = "linear"
  THEN At(outputError, i)
  ELSE Mul(At(outputError, i), ActivationDfn(l.activation, At(l.output, i)))

RECURSIVE InputErrorSum(_, _, _, _)
\* inputError[j] after units 0..i-1 added delta * weights[i][j]
InputErrorSum(l, delta, j, i) ==
  IF i = 0 THEN Zero
  ELSE Add(InputErrorSum(l, delta, j, i - 1), Mul(delta[i], l.weights[i][j]))

\* Layer.backward when nothing throws, delta[i] the delta of unit i
LayerBackwardDone(l, delta) ==
  [layer |-> [l EXCEPT
      !.biasGrads = [i \in 1..l.outputSize |-> Add(l.biasGrads[i], delta[i])],
      !.weightGrads = [i \in 1..l.outputSize |-> [j \in 1..l.inputSize |->
         Add(l.weightGrads[i][j], Mul(delta[i], At(l.input, j)))]]],
   ret |-> [j \in 1..l.inputSize |-> InputErrorSum(l, delta, j, l.outputSize)],
   threw |-> FALSE]

\* Layer.backward of a linear layer whose cache is null: delta is added to
\* biasGrads[0], then "this.input[j]" throws
LayerBackwardNullInput(l, outputError) ==
  [layer |-> [l EXCEPT !.biasGrads[1] = Add(@, At(outputError, 1))],
   ret |-> <<>>,
   threw |-> TRUE]

\* a backward pass that assigns the sample's gradient to the accumulators
\* instead of adding it
LayerBackwardAssigning(l, outputError) ==
  LayerBackwardDone(
    [l EXCEPT
       !.biasGrads = [i \in 1..l.outputSize |-> Zero],
       !.weightGrads = [i \in 1..l.outputSize |-> [j \in 1..l.inputSize |-> Zero]]],
    [i \in 1..l.outputSize |-> Delta(l, outputError, i)])

\* Layer.backward(outputError).  A TypeError is thrown at the first unit
\* when the cache it reads is null or dfn is missing.
LayerBackward(l, outputError) ==
  IF l.outputSize >= 1 /\ ~l.cached /\ l.activationName = "linear"
       /\ l.inputSize >= 1
  THEN LayerBackwardNullInput(l, outputError)
  ELSE IF l.outputSize >= 1 /\ l.activationName # "linear"
            /\ (~l.cached \/ (l.activation = "inherited"
                               /\ l.activationName # "relu"))
  THEN [layer |-> l, ret |-> <<>>, threw |-> TRUE]
  ELSE LayerBackwardDone(l, [i \in 1..l.outputSize |-> Delta(l, outputError, i)])

\* an update step that forgets "this.weightGrads[i][j] = 0"
LayerApplyGradientsKeepingGrads(l, lr, l2, batchSize) ==
  [l EXCEPT
     !.biases = [i \in 1..l.outputSize |->
        Sub(l.biases[i], Mul(lr, Div(l.biasGrads[i], batchSize)))],
     !.biasGrads = [i \in 1..l.outputSize |-> Zero],
     !.weights = [i \in 1..l.outputSize |-> [j \in 1..l.inputSize |->
        Sub(l.weights[i][j],
            Mul(lr, Add(Div(l.weightGrads[i][j], batchSize),
                        Mul(l2, l.weights[i][j]))))]]]

\* Layer.applyGradients(lr, l2, batchSize)
LayerApplyGradients(l, lr, l2, batchSize) ==
  [l EXCEPT
     !.biases = [i \in 1..l.outputSize |->
        Sub(l.biases[i], Mul(lr, Div(l.biasGrads[i], batchSize)))],
     !.biasGrads = [i \in 1..l.outputSize |-> Zero],
     !.weights = [i \in 1..l.outputSize |-> [j \in 1..l.inputSize |->
        Sub(l.weights[i][j],
            Mul(lr, Add(Div(l.weightGrads[i][j], batchSize),
                        Mul(l2, l.weights[i][j]))))]],
     !.weightGrads = [i \in 1..l.outputSize |-> [j \in 1..l.inputSize |-> Zero]]]

\* a zeroGrad that also drops the forward cache
LayerZeroGradDroppingCache(l) ==
  [l EXCEPT
     !.biasGrads = [i \in 1..l.outputSize |-> Zero],
     !.weightGrads = [i \in 1..l.outputSize |-> [j \in 1..l.inputSize |-> Zero]],
     !.cached = FALSE, !.input = <<>>, !.output = <<>>, !.preActivation = <<>>]

\* Layer.zeroGrad()
LayerZeroGrad(l) ==
  [l EXCEPT
     !.biasGrads = [i \in 1..l.outputSize |-> Zero],
     !.weightGrads = [i \in 1..l.outputSize |-> [j \in 1..l.inputSize |-> Zero]]]

(***************************************************************************)
(* NeuralNetwork: the operations on the layer stack.                       *)
(***************************************************************************)
\* Math.random() calls made by the layers built before layer i
RECURSIVE DrawsBefore(_, _)
DrawsBefore(topology, i) ==
  IF i <= 1 THEN 0
  ELSE DrawsBefore(topology, i - 1)
         + topology[i - 1] * topology[i] + topology[i]

\* a constructor that builds layer i as Layer(topology[i], topology[i - 1])
NewNetworkSwapped(topology, activation, outputActivation, draw) ==
  [topology |-> topology,
   layers |-> [i \in 1..(Len(topology) - 1) |->
      NewLayer(topology[i + 1], topology[i],
               IF i = Len(topology) - 1 THEN outputActivation ELSE activation,
               draw, DrawsBefore(topology, i))],
   activationName |-> activation,
   outputActivationName |-> outputActivation,
   epoch |-> 0,
   loss |-> PosInf]

\* a constructor that gives every layer the hidden activation
NewNetworkHiddenOnly(topology, activation, outputActivation, draw) ==
  [topology |-> topology,
   layers |-> [i \in 1..(Len(topology) - 1) |->
      NewLayer(topology[i], topology[i + 1], activation,
               draw, DrawsBefore(topology, i))],
   activationName |-> activation,
   outputActivationName |-> outputActivation,
   epoch |-> 0,
   loss |-> PosInf]

\* new NeuralNetwork(topology, activation, outputActivation)
NewNetwork(topology, activation, outputActivation, draw) ==
  [topology |-> topology,
   layers |-> [i \in 1..(Len(topology) - 1) |->
      NewLayer(topology[i], topology[i + 1],
               IF i = Len(topology) - 1 THEN outputActivation ELSE activation,
               draw, DrawsBefore(topology, i))],
   activationName |-> activation,
   outputActivationName |-> outputActivation,
   epoch |-> 0,
   loss |-> PosInf]

\* a Layer method call as the log keeps it: the method, the layer, the
\* batchSize argument of applyGradients, and, for forward and backward, the
\* vector passed in and the vector returned
Call(m, i, batchSize) ==
  [m |-> m, layer |-> i, batchSize |-> batchSize, arg |-> <<>>, ret |-> <<>>]

\* the state of a pass over the layers once layer n returned r
PassDone(prev, n, r, m) ==
  [layers |-> [prev.layers EXCEPT ![n] = r.layer],
   ret |-> r.ret,
   threw |-> r.threw,
   log |-> Append(prev.log,
                  [Call(m, n, 0) EXCEPT !.arg = prev.ret, !.ret = r.ret])]

\* "out = layer.forward(out)" for layer n
ForwardNext(prev, n) ==
  IF prev.threw THEN prev
  ELSE PassDone(prev, n, LayerForward(prev.layers[n], prev.ret), "forward")

RECURSIVE ForwardThrough(_, _, _)
\* NeuralNetwork.forward after its first n layers: the layers, the value
\* piped so far, whether a layer threw, and the Layer.forward calls made
ForwardThrough(layers, input, n) ==
  IF n = 0
  THEN [layers |-> layers, ret |-> input, threw |-> FALSE, log |-> <<>>]
  ELSE ForwardNext(ForwardThrough(layers, input, n - 1), n)

\* a forward pass that stops before the last layer
NetForwardShort(layers, input) == ForwardThrough(layers, input, Len(layers) - 1)

\* NeuralNetwork.forward(input)
NetForward(layers, input) == ForwardThrough(layers, input, Len(layers))

\* "error = this.layers[i].backward(error)"
BackwardNext(prev, i) ==
  IF prev.threw THEN prev
  ELSE PassDone(prev, i, LayerBackward(prev.layers[i], prev.ret), "backward")

RECURSIVE BackwardFirstToLast(_, _, _)
\* a backprop loop that visits the layers in forward order
BackwardFirstToLast(layers, error, i) ==
  IF i > Len(layers)
  THEN [layers |-> layers, ret |-> error, threw |-> FALSE, log |-> <<>>]
  ELSE BackwardNext(BackwardFirstToLast(layers, error, i + 1),
                    Len(layers) + 1 - i)

RECURSIVE BackwardFrom(_, _, _)
\* the backprop loop of trainBatch after layers Len(layers) down to i
BackwardFrom(layers, error, i) ==
  IF i > Len(layers)
  THEN [layers |-> layers, ret |-> error, threw |-> FALSE, log |-> <<>>]
  ELSE BackwardNext(BackwardFrom(layers, error, i + 1), i)

\* NeuralNetwork.paramCount()
RECURSIVE ParamCountTo(_, _)
ParamCountTo(layers, n) ==
  IF n = 0 THEN 0
  ELSE ParamCountTo(layers, n - 1)
         + layers[n].outputSize * layers[n].inputSize + layers[n].outputSize

\* a count that leaves out the biases of the last layer
ParamCountNoBias(layers) ==
  ParamCountTo(layers, Len(layers)) - layers[Len(layers)].outputSize

ParamCount(layers) == ParamCountTo(layers, Len(layers))

\* NeuralNetwork.getWeights()
GetWeights(layers) ==
  [i \in 1..Len(layers) |->
     [layer |-> i - 1, weights |-> layers[i].weights, biases |-> layers[i].biases]]

\* xMin + j * xStep + xStep / 2, with xStep = (xMax - xMin) / resolution
CellCentre(lo, hi, resolution, j) ==
  Add(Add(lo, Mul(Count(j), Div(Sub(hi, lo), Count(resolution)))),
      Div(Div(Sub(hi, lo), Count(resolution)), Count(2)))

\* the spacing of the single-precision grid: a Float32Array element holds
\* fewer digits than a number
Float32Step == Scale \div 5

\* the conversion that storing a value into a Float32Array performs
\* (Math.fround): undefined becomes NaN, a finite value moves to the
\* single-precision grid
Float32Num(x) ==
  IF x.k = "fin" THEN F(Quot(x.v, Float32Step) * Float32Step) ELSE x

\* a store that keeps every digit of the value
FroundExact(a) == ToNum(a)

\* the value a Float32Array element holds after "grid[...] = a"
Fround(a) == Float32Num(ToNum(a))

\* "grid[i * resolution + j] = out[0]" once forward([x, y]) returned r
GridDone(prev, cell, r) ==
  [layers |-> r.layers,
   ret |-> IF r.threw THEN prev.ret ELSE Append(prev.ret, Fround(At(r.ret, 1))),
   threw |-> r.threw,
   inputs |-> Append(prev.inputs, cell)]

\* "const out = this.forward([x, y])"
GridCell(prev, cell) == GridDone(prev, cell, NetForward(prev.layers, cell))

\* the cell of row i and column j
GridNext(prev, resolution, box, i, j) ==
  IF prev.threw THEN prev
  ELSE GridCell(prev, <<CellCentre(box.xMin, box.xMax, resolution, j),
                        CellCentre(box.yMin, box.yMax, resolution, i)>>)

RECURSIVE GridThrough(_, _, _, _)
\* classifyGrid after its first c cells: the layers, the grid so far, a
\* throw, and the arguments of the forward calls made
GridThrough(layers, resolution, box, c) ==
  IF c = 0
  THEN [layers |-> layers, ret |-> <<>>, threw |-> FALSE, inputs |-> <<>>]
  ELSE GridNext(GridThrough(layers, resolution, box, c - 1), resolution, box,
                (c - 1) \div resolution, (c - 1) % resolution)

\* NeuralNetwork.classifyGrid(resolution, xMin, xMax, yMin, yMax)
ClassifyGrid(layers, resolution, box) ==
  GridThrough(layers, resolution, box, resolution * resolution)

(***************************************************************************)
(* The callers' inputs, and the bounds of the model.                       *)
(***************************************************************************)
MaxCalls == 2
MaxSamples == 2

\* the requests that arrive at the server, and the times the clock is read
\* to have advanced
MaxRequests == 5

MaxTicks == 1

Topologies == {<<2, 1>>, <<1, 2, 1>>}

\* <<activation, outputActivation>> as passed to the constructor
ActivationArgs == {<<"relu", "sigmoid">>, <<"tanh", "linear">>}

\* constructor arguments that are no keys of Activations
UnknownActivationArgs == {<<"swish", "softmax">>}

\* constructor arguments that are members of Object.prototype
InheritedActivationArgs == {<<"sigmoid", "constructor">>, <<"toString", "linear">>}

\* the results of the successive Math.random() calls of one run
Draw == [k \in 0..15 |-> F((7 + 3 * k) % Scale)]

InputPool == {<<F(-5), F(20)>>, <<F(10)>>}

ErrorPool == {<<F(10), F(-5)>>}

Coordinates == <<<<F(10), F(-10)>>, <<F(-10), F(5)>>, <<F(5), F(20)>>, <<F(0), F(-5)>>>>

\* sample k of the callers' data for a network of n inputs
Sample(k, n) ==
  [input |-> SubSeq(Coordinates[((k - 1) % Len(Coordinates)) + 1], 1, n),
   target |-> <<IF k % 2 = 1 THEN One ELSE Zero>>]

\* the first m samples, in order
Dataset(m, n) == [k \in 1..m |-> Sample(k, n)]

\* the caller's training set-ups for a network of n inputs: a dataset and
\* the lr, lossType and l2 it trains with
Jobs(n) ==
  {[data |-> Dataset(MaxSamples, n), lr |-> F(5), lossType |-> "mse", l2 |-> Zero],
   [data |-> Dataset(MaxSamples, n), lr |-> F(5), lossType |-> "crossEntropy",
    l2 |-> F(1)],
   [data |-> Dataset(1, n), lr |-> F(10), lossType |-> "hinge", l2 |-> Zero],
   [data |-> Dataset(0, n), lr |-> F(5), lossType |-> "mse", l2 |-> Zero]}

\* a set-up whose lossType is a member of Object.prototype
InheritedJobs(n) ==
  {[data |-> Dataset(MaxSamples, n), lr |-> F(5), lossType |-> "constructor",
    l2 |-> Zero]}

\* train's epochs and whether an onEpoch callback is passed
TrainInputs ==
  {<<-1, FALSE>>, <<0, TRUE>>} \cup ((1..MaxCalls) \X BOOLEAN)

ApplyArgs == {[lr |-> F(10), l2 |-> F(1), batchSize |-> Count(2)]}

Boxes == {[xMin |-> F(-60), xMax |-> F(60), yMin |-> F(-60), yMax |-> F(60)]}

Resolutions == {2}

(***************************************************************************)
(* trainBatch, in the steps the caller's other calls can never interleave  *)
(* with (the engine is synchronous): entry, one step per sample, return.   *)
(***************************************************************************)
\* a trainBatch entry that keeps what the accumulators hold
TrainBatchKeepingGrads(layers) ==
  [layers |-> layers,
   log |-> [i \in 1..Len(layers) |-> Call("zeroGrad", i, 0)]]

\* trainBatch entry: lossFn, "for (const layer of this.layers) layer.zeroGrad()"
TrainBatchZero(layers) ==
  [layers |-> [i \in 1..Len(layers) |-> LayerZeroGrad(layers[i])],
   log |-> [i \in 1..Len(layers) |-> Call("zeroGrad", i, 0)]]

\* one sample once forward and the backprop loop have run
SampleDone(fwd, back, lossFn, totalLoss, sample) ==
  [layers |-> back.layers,
   totalLoss |-> Add(totalLoss, LossFn(lossFn, fwd.ret, sample.target)),
   threw |-> back.threw,
   log |-> fwd.log \o back.log]

\* one sample once "this.forward(sample.input)" has run; "lossFn.fn(...)"
\* throws a TypeError when lossFn is no loss
SampleForwarded(fwd, lossFn, totalLoss, sample) ==
  IF fwd.threw \/ lossFn = "inherited"
  THEN [layers |-> fwd.layers, totalLoss |-> totalLoss, threw |-> TRUE,
        log |-> fwd.log]
  ELSE SampleDone(fwd,
         BackwardFrom(fwd.layers, LossDfn(lossFn, fwd.ret, sample.target), 1),
         lossFn, totalLoss, sample)

\* one sample followed at once by an update of every layer (per-sample
\* gradient descent instead of one update per batch)
ApplyAfterSample(r) ==
  [r EXCEPT
     !.layers = [i \in 1..Len(r.layers) |->
                   LayerApplyGradients(r.layers[i], One, Zero, Count(1))],
     !.log = r.log \o [i \in 1..Len(r.layers) |-> Call("applyGradients", i, 1)]]

TrainBatchSampleOnline(layers, lossFn, totalLoss, sample) ==
  ApplyAfterSample(
    SampleForwarded(NetForward(layers, sample.input), lossFn, totalLoss, sample))

\* the body of "for (const sample of data)" for one sample
TrainBatchSample(layers, lossFn, totalLoss, sample) ==
  SampleForwarded(NetForward(layers, sample.input), lossFn, totalLoss, sample)

\* "for (const layer of this.layers) layer.applyGradients(lr, l2, data.length)"
TrainBatchApply(layers, lr, l2, data) ==
  [layers |-> [i \in 1..Len(layers) |->
                 LayerApplyGradients(layers[i], lr, l2, Count(Len(data)))],
   log |-> [i \in 1..Len(layers) |-> Call("applyGradients", i, Len(data))]]

\* a loss that is the total, not the average
AverageLossUndivided(totalLoss, data) == ToNum(totalLoss)

\* this.loss = totalLoss / data.length
AverageLoss(totalLoss, data) == Div(totalLoss, Count(Len(data)))

\* a counter that advances by two
NextEpochTwice(epoch) == epoch + 2

\* this.epoch++
NextEpoch(epoch) == epoch + 1

\* a loop condition that runs one epoch too many
TrainContinuesInclusive(e, epochs) == e <= epochs

\* train's loop condition "e < epochs"
TrainContinues(e, epochs) == e < epochs

\* a callback that is handed the loop variable e instead of this.epoch
OnEpochArgsLoopIndex(epoch, e, loss) == [epoch |-> e, loss |-> loss]

\* the arguments of "onEpoch(this.epoch, loss)" in iteration e of train
OnEpochArgs(epoch, e, loss) == [epoch |-> epoch, loss |-> loss]

(***************************************************************************)
(* The same engine with its arrays as cells of a heap, so that two         *)
(* references to one array are told apart from two equal arrays.  A cell   *)
(* holds the elements of one array of numbers; the arrays of arrays and    *)
(* the objects (layers, weights, weightGrads, a dataset, its samples, a    *)
(* snapshot) are written once by the code that builds them and are held as *)
(* sequences and records of addresses.  A fresh array that the code        *)
(* assigns to a field lives at the address of that field.                  *)
(***************************************************************************)
\* an allocation that hands every owner the same bias array
CellSharedBiases(owner, l, field, i) ==
  [o |-> IF field = "biases" THEN "static" ELSE owner, l |-> l, f |-> field, i |-> i]

\* the address of the array that `owner` allocates for `field` of its layer
\* (or sample) `l`, row `i`
Cell(owner, l, field, i) == [o |-> owner, l |-> l, f |-> field, i |-> i]

\* null
Null == Cell("null", 0, "", 0)

EmptyHeap == <<>>

\* the elements of the array v, index by index
Elements(v) == SubSeq(v, 1, Len(v))

RECURSIVE StoreRowsTo(_, _, _, _)
\* h after "addrs[i] := vals[i]" for i = 1..n, in order
StoreRowsTo(h, addrs, vals, n) ==
  IF n = 0 THEN h
  ELSE (addrs[n] :> Elements(vals[n])) @@ StoreRowsTo(h, addrs, vals, n - 1)

StoreRows(h, addrs, vals) == StoreRowsTo(h, addrs, vals, Len(addrs))

Store(h, a, v) == StoreRows(h, <<a>>, <<v>>)

\* the elements behind a reference; null has none
Deref(h, a) == IF a \in DOMAIN h THEN h[a] ELSE <<>>

\* the Layer object that `owner` builds as its layer l: every array of the
\* constructor is a new one
HeapLayerObject(owner, l, fl) ==
  [inputSize |-> fl.inputSize,
   outputSize |-> fl.outputSize,
   activation |-> fl.activation,
   activationName |-> fl.activationName,
   weights |-> [i \in 1..fl.outputSize |-> Cell(owner, l, "weights", i)],
   biases |-> Cell(owner, l, "biases", 0),
   weightGrads |-> [i \in 1..fl.outputSize |-> Cell(owner, l, "weightGrads", i)],
   biasGrads |-> Cell(owner, l, "biasGrads", 0),
   input |-> Null,
   output |-> Null,
   preActivation |-> Null]

\* the layer that the object hl is in heap h
LayerView(h, hl) ==
  [inputSize |-> hl.inputSize,
   outputSize |-> hl.outputSize,
   activation |-> hl.activation,
   activationName |-> hl.activationName,
   weights |-> [i \in 1..Len(hl.weights) |-> Deref(h, hl.weights[i])],
   biases |-> Deref(h, hl.biases),
   weightGrads |-> [i \in 1..Len(hl.weightGrads) |-> Deref(h, hl.weightGrads[i])],
   biasGrads |-> Deref(h, hl.biasGrads),
   cached |-> hl.input # Null,
   input |-> Deref(h, hl.input),
   output |-> Deref(h, hl.output),
   preActivation |-> Deref(h, hl.preActivation)]

LayersView(h, layers) == [i \in 1..Len(layers) |-> LayerView(h, layers[i])]

\* the element writes of a Layer method into the arrays the object holds:
\* afterwards they hold what the layer fl holds
StoreParameters(h, hl, fl) ==
  StoreRows(Store(h, hl.biases, fl.biases), hl.weights, fl.weights)

StoreGrads(h, hl, fl) ==
  StoreRows(Store(h, hl.biasGrads, fl.biasGrads), hl.weightGrads, fl.weightGrads)

RECURSIVE StoreLayers(_, _, _, _)
\* the constructor's loop over the first n layers
StoreLayers(h, hls, fls, n) ==
  IF n = 0 THEN h
  ELSE StoreGrads(StoreParameters(StoreLayers(h, hls, fls, n - 1), hls[n], fls[n]),
                  hls[n], fls[n])

\* the object of "new NeuralNetwork(...)" given the network fnet it is
HeapNetworkObject(owner, fnet) ==
  [fnet EXCEPT !.layers = [i \in 1..Len(fnet.layers) |->
                             HeapLayerObject(owner, i, fnet.layers[i])]]

\* new NeuralNetwork(...) by `owner` in heap h
HeapNewNetwork(h, owner, fnet) ==
  [heap |-> StoreLayers(h, HeapNetworkObject(owner, fnet).layers, fnet.layers,
                        Len(fnet.layers)),
   net |-> HeapNetworkObject(owner, fnet)]

\* a "this.input = input" that keeps the caller's array
InputAlias(own, input) == input

\* the array "this.input = input.slice()" stores: a new one
InputCopy(own, input) == own

\* Layer.forward(input) of layer l of `owner`, r the values it computes
HeapLayerForwardStore(h, hl, owner, l, input, r) ==
  [heap |-> Store(Store(Store(h, InputCopy(Cell(owner, l, "input", 0), input),
                              Deref(h, input)),
                        Cell(owner, l, "preActivation", 0), r.layer.preActivation),
                  Cell(owner, l, "output", 0), r.layer.output),
   layer |-> [hl EXCEPT !.input = InputCopy(Cell(owner, l, "input", 0), input),
                        !.preActivation = Cell(owner, l, "preActivation", 0),
                        !.output = Cell(owner, l, "output", 0)],
   ret |-> Cell(owner, l, "output", 0)]

HeapLayerForward(h, hl, owner, l, input) ==
  HeapLayerForwardStore(h, hl, owner, l, input,
                        LayerForward(LayerView(h, hl), Deref(h, input)))

HeapForwardPut(prev, n, r) ==
  [heap |-> r.heap, layers |-> [prev.layers EXCEPT ![n] = r.layer], ret |-> r.ret]

HeapForwardNext(prev, owner, n) ==
  HeapForwardPut(prev, n,
                 HeapLayerForward(prev.heap, prev.layers[n], owner, n, prev.ret))

RECURSIVE HeapForwardThrough(_, _, _, _, _)
HeapForwardThrough(h, layers, owner, input, n) ==
  IF n = 0 THEN [heap |-> h, layers |-> layers, ret |-> input]
  ELSE HeapForwardNext(HeapForwardThrough(h, layers, owner, input, n - 1), owner, n)

\* NeuralNetwork.forward(input), input and the value returned references
HeapNetForward(h, layers, owner, input) ==
  HeapForwardThrough(h, layers, owner, input, Len(layers))

RECURSIVE HeapBackwardFrom(_, _, _, _)
HeapBackwardStep(h, layers, n, r) ==
  HeapBackwardFrom(StoreGrads(h, layers[n], r.layer), layers, r.ret, n - 1)

\* the backprop loop of trainBatch from layer n down: each error array is a
\* new array that only the loop holds
HeapBackwardFrom(h, layers, error, n) ==
  IF n = 0 THEN h
  ELSE HeapBackwardStep(h, layers, n, LayerBackward(LayerView(h, layers[n]), error))

HeapZeroLayer(h, hl) == StoreGrads(h, hl, LayerZeroGrad(LayerView(h, hl)))

RECURSIVE HeapZeroGrad(_, _, _)
\* "for (const layer of this.layers) layer.zeroGrad()" after n layers
HeapZeroGrad(h, layers, n) ==
  IF n = 0 THEN h
  ELSE HeapZeroLayer(HeapZeroGrad(h, layers, n - 1), layers[n])

HeapApplyPut(h, hl, fl) == StoreGrads(StoreParameters(h, hl, fl), hl, fl)

HeapApplyLayer(h, hl, lr, l2, batchSize) ==
  HeapApplyPut(h, hl, LayerApplyGradients(LayerView(h, hl), lr, l2, batchSize))

RECURSIVE HeapApplyGradients(_, _, _, _, _, _)
\* "for (const layer of this.layers) layer.applyGradients(...)" after n layers
HeapApplyGradients(h, layers, lr, l2, batchSize, n) ==
  IF n = 0 THEN h
  ELSE HeapApplyLayer(HeapApplyGradients(h, layers, lr, l2, batchSize, n - 1),
                      layers[n], lr, l2, batchSize)

\* one sample once forward returned fwd: the loss term, then backprop
HeapSampleForwarded(fwd, lossFn, totalLoss, sample) ==
  [heap |-> HeapBackwardFrom(fwd.heap, fwd.layers,
                             LossDfn(lossFn, Deref(fwd.heap, fwd.ret),
                                     Deref(fwd.heap, sample.target)),
                             Len(fwd.layers)),
   layers |-> fwd.layers,
   totalLoss |-> Add(totalLoss, LossFn(lossFn, Deref(fwd.heap, fwd.ret),
                                       Deref(fwd.heap, sample.target)))]

HeapSampleNext(prev, owner, lossFn, sample) ==
  HeapSampleForwarded(HeapNetForward(prev.heap, prev.layers, owner, sample.input),
                      lossFn, prev.totalLoss, sample)

RECURSIVE HeapSamplesThrough(_, _, _, _, _, _)
\* "for (const sample of data)" after its first k samples
HeapSamplesThrough(h, layers, owner, lossFn, data, k) ==
  IF k = 0 THEN [heap |-> h, layers |-> layers, totalLoss |-> Zero]
  ELSE HeapSampleNext(HeapSamplesThrough(h, layers, owner, lossFn, data, k - 1),
                      owner, lossFn, data[k])

HeapTrainBatchDone(net, s, j, data) ==
  [heap |-> HeapApplyGradients(s.heap, s.layers, j.lr, j.l2, Count(Len(data)),
                               Len(s.layers)),
   net |-> [net EXCEPT !.layers = s.layers,
                       !.loss = AverageLoss(s.totalLoss, data),
                       !.epoch = NextEpoch(@)]]

\* NeuralNetwork.trainBatch(data, j.lr, j.lossType, j.l2) of `owner`
HeapTrainBatch(h, net, owner, data, j) ==
  HeapTrainBatchDone(net,
    HeapSamplesThrough(HeapZeroGrad(h, net.layers, Len(net.layers)), net.layers,
                       owner, LookupLoss(j.lossType), data, Len(data)),
    j, data)

\* a copy that is the array it was asked to copy
SliceKept(own, source) == source

\* the array "w.slice()" / "l.biases.slice()" of getWeights returns: a new one
Slice(own, source) == own

\* the entry of layer i in the array getWeights returns
SnapshotEntry(hl, i) ==
  [layer |-> i - 1,
   weights |-> [r \in 1..Len(hl.weights) |->
                  Slice(Cell("snapshot", i, "weights", r), hl.weights[r])],
   biases |-> Slice(Cell("snapshot", i, "biases", 0), hl.biases)]

\* the copies of layer i's elements, written through the entry's references
StoreSnapshotEntry(h, hl, e) ==
  StoreRows(Store(h, e.biases, Deref(h, hl.biases)), e.weights,
            [r \in 1..Len(hl.weights) |-> Deref(h, hl.weights[r])])

RECURSIVE StoreSnapshot(_, _, _)
StoreSnapshot(h, layers, n) ==
  IF n = 0 THEN h
  ELSE StoreSnapshotEntry(StoreSnapshot(h, layers, n - 1), layers[n],
                          SnapshotEntry(layers[n], n))

\* NeuralNetwork.getWeights()
HeapGetWeights(h, layers) ==
  [heap |-> StoreSnapshot(h, layers, Len(layers)),
   ret |-> [i \in 1..Len(layers) |-> SnapshotEntry(layers[i], i)]]

\* what the caller reads through the snapshot s
SnapshotView(h, s) ==
  [i \in 1..Len(s) |->
     [layer |-> s[i].layer,
      weights |-> [r \in 1..Len(s[i].weights) |-> Deref(h, s[i].weights[r])],
      biases |-> Deref(h, s[i].biases)]]

\* the array "[x, y]" of one classifyGrid iteration
GridInput == Cell("classifyGrid", 0, "input", 0)

HeapGridPut(fwd) == [heap |-> fwd.heap, layers |-> fwd.layers]

HeapGridNext(prev, owner, cell) ==
  HeapGridPut(HeapNetForward(Store(prev.heap, GridInput, cell), prev.layers,
                             owner, GridInput))

RECURSIVE HeapGridThrough(_, _, _, _, _, _)
\* classifyGrid after its first c cells, row by row
HeapGridThrough(h, layers, owner, resolution, box, c) ==
  IF c = 0 THEN [heap |-> h, layers |-> layers]
  ELSE HeapGridNext(HeapGridThrough(h, layers, owner, resolution, box, c - 1), owner,
         <<CellCentre(box.xMin, box.xMax, resolution, (c - 1) % resolution),
           CellCentre(box.yMin, box.yMax, resolution, (c - 1) \div resolution)>>)

\* NeuralNetwork.classifyGrid(resolution, ...) of `owner`
HeapClassifyGrid(h, layers, owner, resolution, box) ==
  HeapGridThrough(h, layers, owner, resolution, box, resolution * resolution)

\* the references of a dataset of the caller: an array of {input, target}
DatasetObject(fdata) ==
  [k \in 1..Len(fdata) |->
     [input |-> Cell("data", k, "input", 0), target |-> Cell("data", k, "target", 0)]]

\* heap h with the arrays of that dataset
StoreDataset(h, fdata) ==
  StoreRows(StoreRows(h, [k \in 1..Len(fdata) |-> Cell("data", k, "input", 0)],
                      [k \in 1..Len(fdata) |-> fdata[k].input]),
            [k \in 1..Len(fdata) |-> Cell("data", k, "target", 0)],
            [k \in 1..Len(fdata) |-> fdata[k].target])

\* what the caller reads through the dataset d
DatasetView(h, d) ==
  [k \in 1..Len(d) |-> [input |-> Deref(h, d[k].input), target |-> Deref(h, d[k].target)]]

(***************************************************************************)
(* Datasets: the five generators.  Math.random() is a stream of draws      *)
(* numbered from 0; a generator is given the stream and returns its data.  *)
(***************************************************************************)
\* Math.PI on the grid
MathPI == F(31)

\* sin on the grid for an argument of n tenths in the first quarter period
SinGrid(n) ==
  IF n <= 5 THEN n
  ELSE IF n <= 7 THEN 6
  ELSE IF n = 8 THEN 7
  ELSE IF n <= 10 THEN 8
  ELSE IF n <= 12 THEN 9
  ELSE 10

\* sin of n tenths, n >= 0, by the symmetries of the sine
SinTenths(n) ==
  IF n % 63 <= 15 THEN SinGrid(n % 63)
  ELSE IF n % 63 <= 31 THEN SinGrid(31 - (n % 63))
  ELSE IF n % 63 <= 47 THEN -SinGrid((n % 63) - 31)
  ELSE -SinGrid(63 - (n % 63))

SinNum(x) ==
  IF x.k # "fin" THEN NaN
  ELSE IF x.v >= 0 THEN F(SinTenths(x.v))
  ELSE F(-SinTenths(-x.v))

MathSin(a) == SinNum(ToNum(a))

\* cos(x) = sin(x + pi / 2)
MathCos(a) == MathSin(Add(a, F(16)))

FloorNum(x) == IF x.k = "fin" THEN F((x.v \div Scale) * Scale) ELSE x

MathFloor(a) == FloorNum(ToNum(a))

\* a % b of JavaScript for finite operands: the sign of the dividend
RemNum(x, y) ==
  IF x.k # "fin" \/ y.k # "fin" \/ y.v = 0 THEN NaN
  ELSE F(x.v - Quot(x.v, y.v) * y.v)

Rem(a, b) == RemNum(ToNum(a), ToNum(b))

\* draw k of the stream that starts from `seed`: a number in [0, 1)
Random(seed, k) == F((seed + 3 * k) % Scale)

\* (Math.random() - 0.5) * width
Jitter(seed, k, width) == Mul(Sub(Random(seed, k), F(5)), width)

\* a half that is rounded up
HalfRoundedUp(n) == (n + 1) \div 2

\* Math.floor(n / 2)
Half(n) == n \div 2

\* "r" of circle, isInner decided by draw k + 1
CircleRadius(seed, k) ==
  IF Gt(F(5), Random(seed, k + 1))
  THEN Mul(Random(seed, k + 2), Count(2))
  ELSE Add(F(25), Mul(Random(seed, k + 2), Count(2)))

\* one iteration of circle's loop, its draws numbered from k
CircleSample(seed, k) ==
  [input |-> <<Add(Mul(CircleRadius(seed, k),
                       MathCos(Mul(Mul(Random(seed, k), MathPI), Count(2)))),
                   Jitter(seed, k + 3, F(3))),
               Add(Mul(CircleRadius(seed, k),
                       MathSin(Mul(Mul(Random(seed, k), MathPI), Count(2)))),
                   Jitter(seed, k + 4, F(3)))>>,
   target |-> <<IF Gt(F(5), Random(seed, k + 1)) THEN One ELSE Zero>>]

RECURSIVE CircleLoop(_, _, _)
\* circle's data when its loop variable is i
CircleLoop(n, seed, i) ==
  IF i = 0 THEN <<>>
  ELSE IF i - 1 < n
  THEN Append(CircleLoop(n, seed, i - 1), CircleSample(seed, 5 * (i - 1)))
  ELSE CircleLoop(n, seed, i - 1)

\* Datasets.circle(n)
Circle(n, seed) == CircleLoop(n, seed, n)

\* "x" or "y" of xor before the jitter: Math.random() * 6 - 3
XorCoordinate(seed, k) == Sub(Mul(Random(seed, k), Count(6)), Count(3))

\* one iteration of xor's loop
XorSample(seed, k) ==
  [input |-> <<Add(XorCoordinate(seed, k), Jitter(seed, k + 2, F(5))),
               Add(XorCoordinate(seed, k + 1), Jitter(seed, k + 3, F(5)))>>,
   target |-> <<IF Gt(XorCoordinate(seed, k), Zero)
                     # Gt(XorCoordinate(seed, k + 1), Zero)
                THEN One ELSE Zero>>]

RECURSIVE XorLoop(_, _, _)
XorLoop(n, seed, i) ==
  IF i = 0 THEN <<>>
  ELSE IF i - 1 < n
  THEN Append(XorLoop(n, seed, i - 1), XorSample(seed, 4 * (i - 1)))
  ELSE XorLoop(n, seed, i - 1)

\* Datasets.xor(n)
Xor(n, seed) == XorLoop(n, seed, n)

\* "t" of spiral: 1.75 * i / half * 2 * Math.PI + c * Math.PI
SpiralAngle(c, i, half) ==
  Add(Mul(Mul(Div(Mul(F(17), Count(i)), Count(half)), Count(2)), MathPI),
      Mul(Count(c), MathPI))

\* one iteration of spiral's inner loop: arm c, point i, draws from k
SpiralSample(c, i, half, seed, k) ==
  [input |-> <<Add(Mul(Mul(Div(Count(i), Count(half)), Count(5)),
                       MathSin(SpiralAngle(c, i, half))),
                   Jitter(seed, k, F(5))),
               Add(Mul(Mul(Div(Count(i), Count(half)), Count(5)),
                       MathCos(SpiralAngle(c, i, half))),
                   Jitter(seed, k + 1, F(5)))>>,
   target |-> <<Count(c)>>]

RECURSIVE SpiralLoop(_, _, _)
\* spiral's data after m iterations of the inner loop in all, arm after arm
SpiralLoop(half, seed, m) ==
  IF m = 0 THEN <<>>
  ELSE Append(SpiralLoop(half, seed, m - 1),
              SpiralSample((m - 1) \div half, (m - 1) % half, half, seed,
                           2 * (m - 1)))

\* Datasets.spiral(n)
Spiral(n, seed) == SpiralLoop(Half(n), seed, 2 * Half(n))

RECURSIVE NonZeroDraw(_, _)
\* "while (u === 0) u = Math.random()" from draw k on: the draw it ends with
NonZeroDraw(seed, k) ==
  IF Random(seed, k) = Zero THEN NonZeroDraw(seed, k + 1) ELSE k

\* randn() with its draws from k on: the value and the next draw
RandnFrom(seed, u, v) ==
  [value |-> Mul(MathSqrt(Mul(Count(-2), MathLog(Random(seed, u)))),
                 MathCos(Mul(Mul(Count(2), MathPI), Random(seed, v)))),
   next |-> v + 1]

RandnAfter(seed, u) == RandnFrom(seed, u, NonZeroDraw(seed, u + 1))

Randn(seed, k) == RandnAfter(seed, NonZeroDraw(seed, k))

\* the point "[randn() * 1.2 + c, randn() * 1.2 + c]" and the next draw
GaussianSecond(a, b, centre) ==
  [input |-> <<Add(Mul(a.value, F(12)), centre), Add(Mul(b.value, F(12)), centre)>>,
   next |-> b.next]

GaussianFirst(seed, a, centre) == GaussianSecond(a, Randn(seed, a.next), centre)

GaussianPoint(seed, k, centre) == GaussianFirst(seed, Randn(seed, k), centre)

\* one iteration of gaussian's loop once both points are drawn
GaussianPush(prev, p, q) ==
  [data |-> prev.data \o <<[input |-> p.input, target |-> <<One>>],
                           [input |-> q.input, target |-> <<Zero>>]>>,
   next |-> q.next]

GaussianPair(prev, seed, p) ==
  GaussianPush(prev, p, GaussianPoint(seed, p.next, Count(-2)))

GaussianNext(prev, seed) ==
  GaussianPair(prev, seed, GaussianPoint(seed, prev.next, Count(2)))

RECURSIVE GaussianLoop(_, _, _)
\* gaussian's data and next draw when its loop variable is i
GaussianLoop(half, seed, i) ==
  IF i = 0 THEN [data |-> <<>>, next |-> 0]
  ELSE IF i - 1 < half
  THEN GaussianNext(GaussianLoop(half, seed, i - 1), seed)
  ELSE GaussianLoop(half, seed, i - 1)

\* Datasets.gaussian(n)
Gaussian(n, seed) == GaussianLoop(Half(n), seed, Half(n)).data

\* "x" or "y" of checkerboard: Math.random() * 8 - 4
BoardCoordinate(seed, k) == Sub(Mul(Random(seed, k), Count(8)), Count(4))

\* one iteration of checkerboard's loop
CheckerboardSample(seed, k) ==
  [input |-> <<BoardCoordinate(seed, k), BoardCoordinate(seed, k + 1)>>,
   target |-> <<Rem(Add(MathFloor(Add(BoardCoordinate(seed, k), Count(4))),
                        MathFloor(Add(BoardCoordinate(seed, k + 1), Count(4)))),
                    Count(2))>>]

RECURSIVE CheckerboardLoop(_, _, _)
CheckerboardLoop(n, seed, i) ==
  IF i = 0 THEN <<>>
  ELSE IF i - 1 < n
  THEN Append(CheckerboardLoop(n, seed, i - 1), CheckerboardSample(seed, 2 * (i - 1)))
  ELSE CheckerboardLoop(n, seed, i - 1)

\* Datasets.checkerboard(n)
Checkerboard(n, seed) == CheckerboardLoop(n, seed, n)

\* the sample counts the caller asks for, and the seeds of Math.random()
SampleCounts == 0..(2 * MaxSamples + 1)

Seeds == 0..(Scale - 1)

(***************************************************************************)
(* server.js: the rate limiter, the Turnstile verification and the limits  *)
(* of the endpoints.  Times are Date.now() in milliseconds.                *)
(***************************************************************************)
MinuteMs == 60000

\* MAX_CONCURRENT_TRAININGS, MAX_CUSTOM_MODELS
MAX_CONCURRENT_TRAININGS == 2

MAX_CUSTOM_MODELS == 20

\* the arguments each endpoint gives to checkRateLimit
RateLimit ==
  [save           |-> [maxReqs |-> 5,  windowMs |-> 3600000],
   complete       |-> [maxReqs |-> 10, windowMs |-> 60000],
   generate       |-> [maxReqs |-> 15, windowMs |-> 60000],
   trainCustom    |-> [maxReqs |-> 3,  windowMs |-> 300000],
   generateCustom |-> [maxReqs |-> 15, windowMs |-> 60000]]

Endpoints == DOMAIN RateLimit

\* "rateLimits.get(ip) || { count: 0, resetAt: now + windowMs }"
EntryOf(limits, ip, at, windowMs) ==
  IF ip \in DOMAIN limits THEN limits[ip]
  ELSE [count |-> 0, resetAt |-> at + windowMs]

\* the window is started again once it is over
EntryReset(entry, at, windowMs) ==
  IF at > entry.resetAt
  THEN [count |-> 0, resetAt |-> at + windowMs]
  ELSE entry

\* "entry.count++; rateLimits.set(ip, entry); return entry.count <= maxReqs"
EntryCounted(limits, ip, entry, maxReqs) ==
  [limits |-> (ip :> [entry EXCEPT !.count = @ + 1]) @@ limits,
   pass |-> entry.count + 1 <= maxReqs]

\* checkRateLimit(ip, maxReqs, windowMs) as `endpoint' calls it at time
\* `at': the map after the call and the value returned
CheckRateLimit(limits, ip, endpoint, at) ==
  EntryCounted(limits, ip,
               EntryReset(EntryOf(limits, ip, at, RateLimit[endpoint].windowMs),
                          at, RateLimit[endpoint].windowMs),
               RateLimit[endpoint].maxReqs)

\* the turnstileToken of a request body, and what siteverify does with it
TurnstileTokens == {"none", "invalid", "valid"}

\* verifyTurnstile(token), with TURNSTILE_SECRET `secret' and a siteverify
\* service that answers (reachable) or makes fetch throw
VerifyTurnstile(secret, token, reachable) ==
  IF ~secret THEN TRUE
  ELSE IF token = "none" THEN FALSE
  ELSE IF ~reachable THEN FALSE
  ELSE token = "valid"

(***************************************************************************)
(* State.                                                                  *)
(*   net        the NeuralNetwork object                                   *)
(*   pc         "idle" (no engine call is running), "trainBatch" or        *)
(*              "train" (inside that method, between two of its steps)     *)
(*   tb         the running trainBatch call: its arguments and locals      *)
(*              (k samples done), and the parameters it found on entry     *)
(*   tr         the running train call: its arguments and locals           *)
(*   result     what the most recent finished call returned or threw (for  *)
(*              classifyGrid also the arguments of its forward calls);     *)
(*              NoCall from construction and while train/trainBatch runs   *)
(*   calls      the Layer method calls made by the most recent trainBatch  *)
(*   callbacks  the onEpoch invocations of the most recent train call      *)
(*   job        the dataset and hyper-parameters the caller trains with,   *)
(*              fixed by its first training call                           *)
(*   direct     direct calls of Layer.backward / Layer.applyGradients      *)
(*              made so far on the network's layers                        *)
(* A run makes at most MaxCalls calls that move parameters or accumulators *)
(* (epochs of training plus direct backward / applyGradients calls).       *)
(***************************************************************************)
VARIABLES net, pc, tb, tr, result, calls, callbacks, job, direct,
          heap, nets, dataset, snapshot, last, running, generated,
          now, secret, rateLimits, db, activeTrainings, customModels, fits,
          issued, passed, served, layer, trace

vars == <<net, pc, tb, tr, result, calls, callbacks, job, direct,
          heap, nets, dataset, snapshot, last, running, generated,
          now, secret, rateLimits, db, activeTrainings, customModels, fits,
          issued, passed, served, layer, trace>>

\* the variables of the engine under one caller, and those of the heap
engineVars == <<net, pc, tb, tr, result, calls, callbacks, job, direct>>

heapVars == <<heap, nets, dataset, snapshot, last, running>>

\* the variable of the dataset generators' caller
datasetVars == <<generated>>

\* the variables of the server and its clients
serverVars == <<now, secret, rateLimits, db, activeTrainings, customModels, fits,
                issued, passed, served>>

\* the variables of one Layer object used directly, and of its caller
layerVars == <<layer, trace>>

\* the variables a part of the program leaves alone: all but its own
outsideEngine == <<heapVars, datasetVars, serverVars, layerVars>>

outsideHeap == <<engineVars, datasetVars, serverVars, layerVars>>

outsideDatasets == <<engineVars, heapVars, serverVars, layerVars>>

outsideServer == <<engineVars, heapVars, datasetVars, layerVars>>

outsideLayer == <<engineVars, heapVars, datasetVars, serverVars>>

NoCall ==
  [op |-> "none", threw |-> FALSE, arg |-> <<>>, vec |-> <<>>, num |-> Zero,
   count |-> 0, snap |-> <<>>, inputs |-> <<>>]

\* every accumulator entry of layer l is exactly zero
GradsZero(l) ==
  /\ \A i \in DOMAIN l.biasGrads : l.biasGrads[i] = Zero
  /\ \A i \in DOMAIN l.weightGrads :
       \A j \in DOMAIN l.weightGrads[i] : l.weightGrads[i][j] = Zero

\* no trainBatch is running; of a running one, `entry' holds the weights and
\* biases found on entry and `dirty' tells that some accumulator was not
\* zero on entry
NoTrainBatch ==
  [data |-> <<>>, lr |-> Zero, lossType |-> "", lossFn |-> "", l2 |-> Zero,
   totalLoss |-> Zero, k |-> 0, entry |-> <<>>, dirty |-> FALSE]

NoJob == [data |-> <<>>, lr |-> Zero, lossType |-> "", l2 |-> Zero]

\* the set-ups, among `jobs`, the caller may train with now
JobChoices(jobs) == IF job = NoJob THEN jobs ELSE {job} \cap jobs

\* calls still allowed to move parameters or accumulators
Budget == MaxCalls - (net.epoch + direct)

NoTrain ==
  [active |-> FALSE, data |-> <<>>, epochs |-> 0, lr |-> Zero, lossType |-> "",
   l2 |-> Zero, onEpoch |-> FALSE, e |-> 0, history |-> <<>>, entryEpoch |-> 0]

NoSnapshot == [taken |-> FALSE, of |-> "", refs |-> <<>>, expect |-> <<>>]

NoOperation == [on |-> ""]

NoRunning == [active |-> FALSE, on |-> "", epochs |-> 0, e |-> 0]

\* no heap is modelled
HeapIdle ==
  /\ heap = EmptyHeap
  /\ nets = <<>>
  /\ dataset = <<>>
  /\ snapshot = NoSnapshot
  /\ last = NoOperation
  /\ running = NoRunning

NoGenerated == [kind |-> "", n |-> 0, seed |-> 0, data |-> <<>>]

\* no generator is called
DatasetsIdle == generated = NoGenerated

\* no Layer object is used on its own
LayerIdle == layer = <<>> /\ trace = <<>>

\* the clients' addresses: checkRateLimit keeps one entry for each
IPs == {"a"}

\* the server was started and no request has arrived
ServerStarted ==
  /\ now = 0
  /\ rateLimits = <<>>
  /\ db = <<>>
  /\ activeTrainings = 0
  /\ customModels = {}
  /\ fits = <<>>
  /\ issued = 0
  /\ passed = [ip \in IPs |-> [e \in Endpoints |-> <<>>]]
  /\ served = 0

\* no server is involved
ServerIdle == ServerStarted /\ secret = FALSE

Init ==
  /\ \E t \in Topologies, a \in ActivationArgs :
       net = NewNetwork(t, a[1], a[2], Draw)
  /\ job = NoJob
  /\ pc = "idle"
  /\ tb = NoTrainBatch
  /\ tr = NoTrain
  /\ result = NoCall
  /\ calls = <<>>
  /\ callbacks = <<>>
  /\ direct = 0
  /\ HeapIdle
  /\ DatasetsIdle
  /\ ServerIdle
  /\ LayerIdle

\* net.forward(x)
Forward(x) ==
  /\ pc = "idle"
  /\ \E r \in {NetForward(net.layers, x)} :
         /\ net' = [net EXCEPT !.layers = r.layers]
         /\ result' = [NoCall EXCEPT !.op = "forward", !.threw = r.threw,
                                     !.arg = x, !.vec = r.ret]
  /\ UNCHANGED <<pc, tb, tr, calls, callbacks, job, direct>>
  /\ UNCHANGED outsideEngine

\* net.layers[i].backward(g)
Backward(i, g) ==
  /\ pc = "idle"
  /\ Budget >= 1
  /\ \E r \in {LayerBackward(net.layers[i], g)} :
         /\ net' = [net EXCEPT !.layers[i] = r.layer]
         /\ result' = [NoCall EXCEPT !.op = "backward", !.threw = r.threw,
                                     !.arg = g, !.vec = r.ret, !.count = i]
  /\ direct' = direct + 1
  /\ UNCHANGED <<pc, tb, tr, calls, callbacks, job>>
  /\ UNCHANGED outsideEngine

\* net.layers[i].zeroGrad()
ZeroGrad(i) ==
  /\ pc = "idle"
  /\ net' = [net EXCEPT !.layers[i] = LayerZeroGrad(@)]
  /\ result' = [NoCall EXCEPT !.op = "zeroGrad", !.count = i]
  /\ UNCHANGED <<pc, tb, tr, calls, callbacks, job, direct>>
  /\ UNCHANGED outsideEngine

\* net.layers[i].applyGradients(a.lr, a.l2, a.batchSize)
ApplyGradients(i, a) ==
  /\ pc = "idle"
  /\ Budget >= 1
  /\ net' = [net EXCEPT !.layers[i] = LayerApplyGradients(@, a.lr, a.l2, a.batchSize)]
  /\ result' = [NoCall EXCEPT !.op = "applyGradients", !.count = i]
  /\ direct' = direct + 1
  /\ UNCHANGED <<pc, tb, tr, calls, callbacks, job>>
  /\ UNCHANGED outsideEngine

\* net.paramCount()
ParamCountCall ==
  /\ pc = "idle"
  /\ result' = [NoCall EXCEPT !.op = "paramCount", !.count = ParamCount(net.layers)]
  /\ UNCHANGED <<net, pc, tb, tr, calls, callbacks, job, direct>>
  /\ UNCHANGED outsideEngine

\* net.getWeights()
GetWeightsCall ==
  /\ pc = "idle"
  /\ result' = [NoCall EXCEPT !.op = "getWeights", !.snap = GetWeights(net.layers)]
  /\ UNCHANGED <<net, pc, tb, tr, calls, callbacks, job, direct>>
  /\ UNCHANGED outsideEngine

\* net.classifyGrid(resolution, box.xMin, box.xMax, box.yMin, box.yMax)
ClassifyGridCall(resolution, box) ==
  /\ pc = "idle"
  /\ \E r \in {ClassifyGrid(net.layers, resolution, box)} :
         /\ net' = [net EXCEPT !.layers = r.layers]
         /\ result' = [NoCall EXCEPT !.op = "classifyGrid", !.threw = r.threw,
                                     !.arg = <<box.xMin, box.xMax, box.yMin, box.yMax>>,
                                     !.vec = r.ret, !.count = resolution,
                                     !.inputs = r.inputs]
  /\ UNCHANGED <<pc, tb, tr, calls, callbacks, job, direct>>
  /\ UNCHANGED outsideEngine

\* control enters trainBatch(data, a.lr, a.lossType, a.l2)
EnterTrainBatch(data, a) ==
  \E z \in {TrainBatchZero(net.layers)} :
      /\ net' = [net EXCEPT !.layers = z.layers]
      /\ tb' = [data |-> data, lr |-> a.lr, lossType |-> a.lossType,
                lossFn |-> LookupLoss(a.lossType), l2 |-> a.l2,
                totalLoss |-> Zero, k |-> 0, entry |-> GetWeights(net.layers),
                dirty |-> \E i \in DOMAIN net.layers : ~GradsZero(net.layers[i])]
      /\ calls' = z.log
      /\ pc' = "trainBatch"

\* net.trainBatch(j.data, j.lr, j.lossType, j.l2), called by the caller
TrainBatchCall(j) ==
  /\ pc = "idle"
  /\ Budget >= 1
  /\ EnterTrainBatch(j.data, j)
  /\ job' = j
  /\ result' = NoCall
  /\ UNCHANGED <<tr, callbacks, direct>>
  /\ UNCHANGED outsideEngine

\* one sample of the running trainBatch; a TypeError unwinds trainBatch
\* and the train call around it, if any
TrainBatchStep ==
  /\ pc = "trainBatch"
  /\ tb.k < Len(tb.data)
  /\ \E r \in {TrainBatchSample(net.layers, tb.lossFn, tb.totalLoss,
                                  tb.data[tb.k + 1])} :
         /\ net' = [net EXCEPT !.layers = r.layers]
         /\ calls' = calls \o r.log
         /\ IF r.threw
            THEN /\ pc' = "idle"
                 /\ tb' = NoTrainBatch
                 /\ tr' = NoTrain
                 /\ result' = [NoCall EXCEPT
                                 !.op = IF tr.active THEN "train" ELSE "trainBatch",
                                 !.threw = TRUE]
            ELSE /\ pc' = "trainBatch"
                 /\ tb' = [tb EXCEPT !.totalLoss = r.totalLoss, !.k = @ + 1]
                 /\ UNCHANGED <<tr, result>>
  /\ UNCHANGED <<callbacks, job, direct>>
  /\ UNCHANGED outsideEngine

\* after the last sample: applyGradients, this.loss, this.epoch++, return;
\* inside train: history.push(loss); if (onEpoch) onEpoch(this.epoch, loss)
TrainBatchReturn ==
  /\ pc = "trainBatch"
  /\ tb.k = Len(tb.data)
  /\ \E ap \in {TrainBatchApply(net.layers, tb.lr, tb.l2, tb.data)},
        loss \in {AverageLoss(tb.totalLoss, tb.data)} :
         /\ net' = [net EXCEPT !.layers = ap.layers, !.loss = loss,
                               !.epoch = NextEpoch(@)]
         /\ calls' = calls \o ap.log
         /\ IF tr.active
            THEN /\ pc' = "train"
                 /\ tr' = [tr EXCEPT !.history = Append(@, loss), !.e = @ + 1]
                 /\ callbacks' = IF tr.onEpoch
                                 THEN Append(callbacks,
                                             OnEpochArgs(net'.epoch, tr.e, loss))
                                 ELSE callbacks
                 /\ UNCHANGED result
            ELSE /\ pc' = "idle"
                 /\ result' = [NoCall EXCEPT !.op = "trainBatch", !.num = loss]
                 /\ UNCHANGED <<tr, callbacks>>
  /\ tb' = NoTrainBatch
  /\ UNCHANGED <<job, direct>>
  /\ UNCHANGED outsideEngine

\* net.train(j.data, epochs, j.lr, j.lossType, j.l2, onEpoch)
TrainCall(j, epochs, onEpoch) ==
  /\ pc = "idle"
  /\ epochs <= Budget
  /\ job' = j
  /\ tr' = [active |-> TRUE, data |-> j.data, epochs |-> epochs, lr |-> j.lr,
            lossType |-> j.lossType, l2 |-> j.l2, onEpoch |-> onEpoch,
            e |-> 0, history |-> <<>>, entryEpoch |-> net.epoch]
  /\ callbacks' = <<>>
  /\ pc' = "train"
  /\ result' = NoCall
  /\ UNCHANGED <<net, tb, calls, direct>>
  /\ UNCHANGED outsideEngine

\* the head of train's loop: "e < epochs" calls trainBatch, else return history
TrainLoop ==
  /\ pc = "train"
  /\ IF TrainContinues(tr.e, tr.epochs)
     THEN /\ EnterTrainBatch(tr.data, [lr |-> tr.lr, lossType |-> tr.lossType,
                                       l2 |-> tr.l2])
          /\ UNCHANGED <<tr, result>>
     ELSE /\ pc' = "idle"
          /\ result' = [NoCall EXCEPT !.op = "train", !.vec = tr.history,
                                      !.count = tr.epochs]
          /\ tr' = NoTrain
          /\ UNCHANGED <<net, tb, calls>>
  /\ UNCHANGED <<callbacks, job, direct>>
  /\ UNCHANGED outsideEngine

Next ==
  \/ \E x \in InputPool : Forward(x)
  \/ \E i \in 1..Len(net.layers), g \in ErrorPool : Backward(i, g)
  \/ \E i \in 1..Len(net.layers) : ZeroGrad(i)
  \/ \E i \in 1..Len(net.layers), a \in ApplyArgs : ApplyGradients(i, a)
  \/ ParamCountCall
  \/ GetWeightsCall
  \/ \E r \in Resolutions, b \in Boxes : ClassifyGridCall(r, b)
  \/ \E j \in JobChoices(Jobs(net.topology[1])) : TrainBatchCall(j)
  \/ TrainBatchStep
  \/ TrainBatchReturn
  \/ \E j \in JobChoices(Jobs(net.topology[1])), t \in TrainInputs :
       TrainCall(j, t[1], t[2])
  \/ TrainLoop

Spec == Init /\ [][Next]_vars

(***************************************************************************)
(* The same engine driven by a caller whose activation and loss names may  *)
(* also be members of Object.prototype.                                    *)
(***************************************************************************)
InitNames ==
  /\ \E t \in Topologies, a \in InheritedActivationArgs \cup UnknownActivationArgs :
       net = NewNetwork(t, a[1], a[2], Draw)
  /\ pc = "idle"
  /\ tb = NoTrainBatch
  /\ tr = NoTrain
  /\ result = NoCall
  /\ calls = <<>>
  /\ callbacks = <<>>
  /\ job = NoJob
  /\ direct = 0
  /\ HeapIdle
  /\ DatasetsIdle
  /\ ServerIdle
  /\ LayerIdle

NextNames ==
  \/ Next
  \/ \E j \in JobChoices(InheritedJobs(net.topology[1])) : TrainBatchCall(j)
  \/ \E j \in JobChoices(InheritedJobs(net.topology[1])), t \in TrainInputs :
       TrainCall(j, t[1], t[2])

SpecNames == InitNames /\ [][NextNames]_vars

(***************************************************************************)
(* Two networks and one caller on the heap.                                *)
(*   heap      the arrays of numbers that are reachable                    *)
(*   nets      the NeuralNetwork objects "A" and "B"                       *)
(*   data      the caller's dataset, handed to both networks               *)
(*   snapshot  the array the caller's last getWeights call returned, which *)
(*             network it came from, and what the caller expects to read   *)
(*             through it (the values at the call, then its own writes)    *)
(*   last      the object the caller's most recent operation was called    *)
(*             on: a network, or the snapshot it wrote into                *)
(*   running   the train call that is running: its network, its epochs and *)
(*             its loop variable e                                         *)
(* Every method runs to its end before the caller's next statement; train  *)
(* is shown one iteration of its loop at a time.                           *)
(***************************************************************************)
Instances == {"A", "B"}

\* the value the caller writes into a snapshot
Sentinel == F(77)

\* Math.random() as the second constructor call finds it
DrawAfter(n) == [k \in 0..15 |-> Draw[(k + n) % 16]]

HeapActivations(n) == IF n = "A" THEN <<"tanh", "linear">> ELSE <<"relu", "sigmoid">>

\* the hyper-parameters the caller trains each network with
HeapJob(n) ==
  IF n = "A" THEN [lr |-> F(5), lossType |-> "mse", l2 |-> Zero]
  ELSE [lr |-> F(10), lossType |-> "crossEntropy", l2 |-> F(1)]

\* the networks as the two constructor calls return them
FirstNetwork(t) ==
  NewNetwork(t, HeapActivations("A")[1], HeapActivations("A")[2], Draw)

SecondNetwork(tA, t) ==
  NewNetwork(t, HeapActivations("B")[1], HeapActivations("B")[2],
             DrawAfter(DrawsBefore(tA, Len(tA))))

\* the addresses a layer object, a network, a dataset, a snapshot refer to
LayerRefs(hl) ==
  ({hl.biases, hl.biasGrads, hl.input, hl.output, hl.preActivation}
     \cup {hl.weights[i] : i \in DOMAIN hl.weights}
     \cup {hl.weightGrads[i] : i \in DOMAIN hl.weightGrads}) \ {Null}

NetRefs(n) == UNION {LayerRefs(n.layers[i]) : i \in DOMAIN n.layers}

DatasetRefs(d) == UNION {{d[k].input, d[k].target} : k \in DOMAIN d}

SnapshotRefs(s) ==
  UNION {{s[i].biases} \cup {s[i].weights[r] : r \in DOMAIN s[i].weights}
           : i \in DOMAIN s}

\* the heap without the arrays nothing refers to any more
Collect(h, ns, d, s) ==
  [a \in DOMAIN h \cap (NetRefs(ns["A"]) \cup NetRefs(ns["B"]) \cup DatasetRefs(d)
                          \cup SnapshotRefs(s)) |-> h[a]]

\* no single-caller engine is modelled
EngineIdle ==
  /\ net = [topology |-> <<>>, layers |-> <<>>, activationName |-> "",
            outputActivationName |-> "", epoch |-> 0, loss |-> PosInf]
  /\ pc = "idle"
  /\ tb = NoTrainBatch
  /\ tr = NoTrain
  /\ result = NoCall
  /\ calls = <<>>
  /\ callbacks = <<>>
  /\ job = NoJob
  /\ direct = 0

HeapInitFrom(a, b) ==
  /\ heap = StoreDataset(b.heap, Dataset(MaxSamples, 2))
  /\ nets = [n \in Instances |-> IF n = "A" THEN a.net ELSE b.net]
  /\ dataset = DatasetObject(Dataset(MaxSamples, 2))
  /\ snapshot = NoSnapshot
  /\ last = NoOperation
  /\ running = NoRunning
  /\ EngineIdle
  /\ DatasetsIdle
  /\ ServerIdle
  /\ LayerIdle

HeapInit ==
  \E tA \in {<<2, 1>>}, tB \in {<<1, 2, 1>>} :
    \E a \in {HeapNewNetwork(EmptyHeap, "A", FirstNetwork(tA))} :
      \E b \in {HeapNewNetwork(a.heap, "B", SecondNetwork(tA, tB))} :
        HeapInitFrom(a, b)

\* training calls the caller may still make
HeapBudget == MaxCalls - (nets["A"].epoch + nets["B"].epoch)

\* nets[n].forward(dataset[k].input)
HeapForward(n, k) ==
  /\ k <= Len(dataset)
  /\ ~running.active
  /\ \E r \in {HeapNetForward(heap, nets[n].layers, n, dataset[k].input)} :
       /\ nets' = [nets EXCEPT ![n].layers = r.layers]
       /\ heap' = Collect(r.heap, nets', dataset, snapshot.refs)
  /\ last' = [on |-> n]
  /\ UNCHANGED <<dataset, snapshot, running>>
  /\ UNCHANGED outsideHeap

\* nets[n].trainBatch(dataset, ...)
HeapTrainBatchCall(n) ==
  /\ ~running.active
  /\ HeapBudget >= 1
  /\ \E r \in {HeapTrainBatch(heap, nets[n], n, dataset, HeapJob(n))} :
       /\ nets' = [nets EXCEPT ![n] = r.net]
       /\ heap' = Collect(r.heap, nets', dataset, snapshot.refs)
  /\ last' = [on |-> n]
  /\ UNCHANGED <<dataset, snapshot, running>>
  /\ UNCHANGED outsideHeap

\* control enters nets[n].train(dataset, epochs, ...)
HeapTrainCall(n, epochs) ==
  /\ ~running.active
  /\ epochs <= HeapBudget
  /\ running' = [active |-> TRUE, on |-> n, epochs |-> epochs, e |-> 0]
  /\ UNCHANGED <<heap, nets, dataset, snapshot, last>>
  /\ UNCHANGED outsideHeap

\* the head of train's loop: "e < epochs" calls trainBatch, else train returns
HeapTrainLoop ==
  /\ running.active
  /\ IF TrainContinues(running.e, running.epochs)
     THEN \E r \in {HeapTrainBatch(heap, nets[running.on], running.on, dataset,
                                   HeapJob(running.on))} :
            /\ nets' = [nets EXCEPT ![running.on] = r.net]
            /\ heap' = Collect(r.heap, nets', dataset, snapshot.refs)
            /\ running' = [running EXCEPT !.e = @ + 1]
            /\ last' = [on |-> running.on]
     ELSE /\ running' = NoRunning
          /\ last' = [on |-> running.on]
          /\ UNCHANGED <<heap, nets>>
  /\ UNCHANGED <<dataset, snapshot>>
  /\ UNCHANGED outsideHeap

\* nets[n].classifyGrid(resolution, ...)
HeapClassifyGridCall(n, resolution, box) ==
  /\ ~running.active
  /\ \E r \in {HeapClassifyGrid(heap, nets[n].layers, n, resolution, box)} :
       /\ nets' = [nets EXCEPT ![n].layers = r.layers]
       /\ heap' = Collect(r.heap, nets', dataset, snapshot.refs)
  /\ last' = [on |-> n]
  /\ UNCHANGED <<dataset, snapshot, running>>
  /\ UNCHANGED outsideHeap

\* snapshot = nets[n].getWeights()
HeapGetWeightsCall(n) ==
  /\ ~running.active
  /\ \E r \in {HeapGetWeights(heap, nets[n].layers)} :
       /\ snapshot' = [taken |-> TRUE, of |-> n, refs |-> r.ret,
                       expect |-> GetWeights(LayersView(heap, nets[n].layers))]
       /\ heap' = Collect(r.heap, nets, dataset, r.ret)
  /\ last' = [on |-> n]
  /\ UNCHANGED <<nets, dataset, running>>
  /\ UNCHANGED outsideHeap

\* the entry of a snapshot after "e.biases[0] = Sentinel" and, with w the
\* row e.weights[0], "w[w.length - 1] = Sentinel"
Overwritten(e) ==
  [e EXCEPT !.biases[1] = Sentinel, !.weights[1][Len(e.weights[1])] = Sentinel]

\* the caller writes into the arrays of entry i of its snapshot
WriteSnapshot(i) ==
  /\ ~running.active
  /\ snapshot.taken
  /\ heap' = [heap EXCEPT ![snapshot.refs[i].biases][1] = Sentinel,
                          ![snapshot.refs[i].weights[1]]
                             [Len(heap[snapshot.refs[i].weights[1]])] = Sentinel]
  /\ snapshot' = [snapshot EXCEPT !.expect[i] = Overwritten(@)]
  /\ last' = [on |-> "snapshot"]
  /\ UNCHANGED <<nets, dataset, running>>
  /\ UNCHANGED outsideHeap

HeapNext ==
  \/ \E n \in Instances : HeapForward(n, 1)
  \/ \E n \in Instances : HeapTrainBatchCall(n)
  \/ \E n \in Instances, epochs \in 0..MaxCalls : HeapTrainCall(n, epochs)
  \/ HeapTrainLoop
  \/ \E n \in Instances, r \in Resolutions, b \in Boxes : HeapClassifyGridCall(n, r, b)
  \/ \E n \in Instances : HeapGetWeightsCall(n)
  \/ \E i \in 1..Len(snapshot.refs) : WriteSnapshot(i)

SpecHeap == HeapInit /\ [][HeapNext]_vars

(***************************************************************************)
(* A caller of the dataset generators.                                     *)
(*   generated  the generator last called, its argument n, the seed of     *)
(*              Math.random() at the call, and the array it returned       *)
(***************************************************************************)
DatasetsInit ==
  /\ generated = NoGenerated
  /\ EngineIdle
  /\ HeapIdle
  /\ ServerIdle
  /\ LayerIdle

\* Datasets.circle(n), Math.random() at `seed'
CircleCall(n, seed) ==
  /\ generated' = [kind |-> "circle", n |-> n, seed |-> seed,
                    data |-> Circle(n, seed)]
  /\ UNCHANGED outsideDatasets

\* Datasets.xor(n), Math.random() at `seed'
XorCall(n, seed) ==
  /\ generated' = [kind |-> "xor", n |-> n, seed |-> seed,
                    data |-> Xor(n, seed)]
  /\ UNCHANGED outsideDatasets

\* Datasets.spiral(n), Math.random() at `seed'
SpiralCall(n, seed) ==
  /\ generated' = [kind |-> "spiral", n |-> n, seed |-> seed,
                    data |-> Spiral(n, seed)]
  /\ UNCHANGED outsideDatasets

\* Datasets.gaussian(n), Math.random() at `seed'
GaussianCall(n, seed) ==
  /\ generated' = [kind |-> "gaussian", n |-> n, seed |-> seed,
                    data |-> Gaussian(n, seed)]
  /\ UNCHANGED outsideDatasets

\* Datasets.checkerboard(n), Math.random() at `seed'
CheckerboardCall(n, seed) ==
  /\ generated' = [kind |-> "checkerboard", n |-> n, seed |-> seed,
                    data |-> Checkerboard(n, seed)]
  /\ UNCHANGED outsideDatasets

DatasetsNext ==
  \/ \E n \in SampleCounts, seed \in Seeds : CircleCall(n, seed)
  \/ \E n \in SampleCounts, seed \in Seeds : XorCall(n, seed)
  \/ \E n \in SampleCounts, seed \in Seeds : SpiralCall(n, seed)
  \/ \E n \in SampleCounts, seed \in Seeds : GaussianCall(n, seed)
  \/ \E n \in SampleCounts, seed \in Seeds : CheckerboardCall(n, seed)

SpecDatasets == DatasetsInit /\ [][DatasetsNext]_vars

(***************************************************************************)
(* The server and its clients.  A handler is taken with what it does to    *)
(* the server's state; the status it answers with decides where it leaves. *)
(*   now              Date.now()                                           *)
(*   secret           whether TURNSTILE_SECRET is set                      *)
(*   rateLimits       the Map of checkRateLimit: ip -> entry               *)
(*   db               the rows of table "models"                           *)
(*   activeTrainings  the counter of POST /api/train-custom                *)
(*   customModels     the Map token -> model; a model is its createdAt     *)
(*   fits             the requests waiting at "await model.fit(...)",      *)
(*                    each with its ip and the turnstileToken of its body  *)
(*   issued           how many model tokens were drawn                     *)
(*   passed           for each ip and endpoint, the times at which a       *)
(*                    request passed the rate check (history)              *)
(*   served           how many requests arrived (history)                  *)
(***************************************************************************)
ServerInit ==
  /\ secret \in BOOLEAN
  /\ ServerStarted
  /\ EngineIdle
  /\ HeapIdle
  /\ DatasetsIdle
  /\ LayerIdle

\* the rate check at the head of a handler: r is what checkRateLimit gave
Counted(ip, endpoint, r) ==
  /\ served' = served + 1
  /\ rateLimits' = r.limits
  /\ passed' = IF r.pass
               THEN [passed EXCEPT ![ip][endpoint] = Append(@, now)]
               ELSE passed

\* the same for one of the MaxRequests requests the clients send
Checked(ip, endpoint, r) ==
  /\ served < MaxRequests
  /\ Counted(ip, endpoint, r)

\* the time between two readings of the clock
TickMs == 2 * MinuteMs

\* time passes
Tick ==
  /\ now < MaxTicks * TickMs
  /\ now' = now + TickMs
  /\ UNCHANGED <<secret, rateLimits, db, activeTrainings, customModels, fits,
                 issued, passed, served>>
  /\ UNCHANGED outsideServer

\* GET /api/complete: 429, or an answer from the chains
Complete(ip) ==
  /\ Checked(ip, "complete", CheckRateLimit(rateLimits, ip, "complete", now))
  /\ UNCHANGED <<now, secret, db, activeTrainings, customModels, fits, issued>>
  /\ UNCHANGED outsideServer

\* POST /api/models/save: 429, 413 for a body over 5 MB, else the INSERT,
\* which may throw
Save(ip, tooLarge, inserted) ==
  /\ \E r \in {CheckRateLimit(rateLimits, ip, "save", now)} :
       /\ Checked(ip, "save", r)
       /\ db' = IF r.pass /\ ~tooLarge /\ inserted
                THEN Append(db, [ip |-> ip])
                ELSE db
  /\ UNCHANGED <<now, secret, activeTrainings, customModels, fits, issued>>
  /\ UNCHANGED outsideServer

\* POST /api/generate: 429, or an answer from the loaded models
Generate(ip) ==
  /\ Checked(ip, "generate", CheckRateLimit(rateLimits, ip, "generate", now))
  /\ UNCHANGED <<now, secret, db, activeTrainings, customModels, fits, issued>>
  /\ UNCHANGED outsideServer

\* the texts of a request to /api/train-custom: none or fewer than 100
\* characters, more than 50000, a usable string, and a value with a length
\* that is no string (text.split throws).  A string of 100 characters or
\* more always gives 20 samples or more.
Texts == {"short", "long", "usable", "noString"}

\* the length of the shortest text the handler accepts
UsableLength == 100

SEQ_LEN == 20

MaxSamplesOfText == 500

\* samples counted from windows that do not overlap
SampleCountDisjoint(length) == (length - SEQ_LEN - 1) \div SEQ_LEN

\* "step = Math.max(1, Math.floor((text.length - SEQ_LEN - 1) / maxSamples))"
TextStep(length) ==
  IF (length - SEQ_LEN - 1) \div MaxSamplesOfText > 1
  THEN (length - SEQ_LEN - 1) \div MaxSamplesOfText
  ELSE 1

\* the passes of "for (i = 0; i < text.length - SEQ_LEN - 1; i += step)"
TextWindows(length) ==
  (length - SEQ_LEN - 1 + TextStep(length) - 1) \div TextStep(length)

\* xData.length after the loop over a string of `length' characters: every
\* character of the text is in its vocabulary, so no window is skipped, and
\* the loop stops at maxSamples
SampleCount(length) ==
  IF TextWindows(length) > MaxSamplesOfText THEN MaxSamplesOfText
  ELSE TextWindows(length)

\* the status with which the handler of /api/train-custom leaves before
\* model.fit, 0 if it reaches the await
TrainCustomExit(pass, active, text) ==
  IF ~pass THEN 429
  ELSE IF active >= MAX_CONCURRENT_TRAININGS THEN 503
  ELSE IF text \in {"short", "long"} THEN 400
  ELSE IF text = "noString" THEN 500
  ELSE IF SampleCount(UsableLength) < 20 THEN 400
  ELSE 0

\* "Evict oldest": the first of the oldest models in the map's order
Oldest(models) ==
  CHOOSE m \in models :
    \A o \in models : m.createdAt < o.createdAt
                        \/ (m.createdAt = o.createdAt /\ m.token <= o.token)

Evicted(models) ==
  IF Cardinality(models) >= MAX_CUSTOM_MODELS
  THEN models \ {Oldest(models)}
  ELSE models

\* the handler of POST /api/train-custom up to its response or its await.
\* "activeTrainings++" is undone by the catch block when text.split throws;
\* the return of 'Not enough usable training data' sits inside the try
\* block and leaves without "activeTrainings--"
TrainCustomHandler(ip, text, turnstileToken) ==
  /\ \E r \in {CheckRateLimit(rateLimits, ip, "trainCustom", now)} :
       /\ Counted(ip, "trainCustom", r)
       /\ \E exit \in {TrainCustomExit(r.pass, activeTrainings, text)} :
            /\ customModels' = IF exit \in {429, 503} THEN customModels
                               ELSE Evicted(customModels)
            /\ IF exit = 0
               THEN /\ activeTrainings' = activeTrainings + 1
                    /\ fits' = Append(fits, [ip |-> ip,
                                             turnstileToken |-> turnstileToken])
               ELSE IF exit = 400 /\ text = "usable"
               THEN /\ activeTrainings' = activeTrainings + 1
                    /\ UNCHANGED fits
               ELSE UNCHANGED <<activeTrainings, fits>>
  /\ UNCHANGED <<now, secret, db, issued>>
  /\ UNCHANGED outsideServer

\* POST /api/train-custom, one of the MaxRequests requests
TrainCustom(ip, text, turnstileToken) ==
  /\ served < MaxRequests
  /\ TrainCustomHandler(ip, text, turnstileToken)

\* model.fit of the i-th waiting request settles and the handler goes on
\* to its response: it stores the model and answers 200, or answers 500
FitSettles(i, fulfilled) ==
  /\ i \in 1..Len(fits)
  /\ fits' = [k \in 1..(Len(fits) - 1) |-> IF k < i THEN fits[k] ELSE fits[k + 1]]
  /\ activeTrainings' = activeTrainings - 1
  /\ IF fulfilled
     THEN /\ customModels' = customModels \cup
               {[token |-> issued + 1, createdAt |-> now]}
          /\ issued' = issued + 1
     ELSE UNCHANGED <<customModels, issued>>
  /\ UNCHANGED <<now, secret, rateLimits, db, passed, served>>
  /\ UNCHANGED outsideServer

\* POST /api/generate-custom: 429, or an answer from a model of the map
GenerateCustom(ip) ==
  /\ Checked(ip, "generateCustom",
             CheckRateLimit(rateLimits, ip, "generateCustom", now))
  /\ UNCHANGED <<now, secret, db, activeTrainings, customModels, fits, issued>>
  /\ UNCHANGED outsideServer

ServerNext ==
  \/ Tick
  \/ \E ip \in IPs : Complete(ip)
  \/ \E ip \in IPs, body \in {<<TRUE, TRUE>>, <<FALSE, TRUE>>, <<FALSE, FALSE>>} :
       Save(ip, body[1], body[2])
  \/ \E ip \in IPs : Generate(ip)
  \/ \E ip \in IPs, text \in Texts, t \in TurnstileTokens : TrainCustom(ip, text, t)
  \/ \E i \in 1..MAX_CONCURRENT_TRAININGS, fulfilled \in BOOLEAN :
       FitSettles(i, fulfilled)
  \/ \E ip \in IPs : GenerateCustom(ip)

SpecServer == ServerInit /\ [][ServerNext]_vars

\* the server when its clients only train: the requests to /api/train-custom,
\* their trainings settling, and time passing
TrainingsNext ==
  \/ Tick
  \/ \E ip \in IPs, text \in Texts, t \in TurnstileTokens : TrainCustom(ip, text, t)
  \/ \E i \in 1..MAX_CONCURRENT_TRAININGS, fulfilled \in BOOLEAN :
       FitSettles(i, fulfilled)

SpecTrainings == ServerInit /\ [][TrainingsNext]_vars

(***************************************************************************)
(* The same server under a crowd of clients that only train: client 1      *)
(* sends its three requests, then client 2, and so on, each from its own   *)
(* IP, while earlier trainings are still running or have settled; the      *)
(* clock advances from one run of the cleanup timer to the next.           *)
(***************************************************************************)
MaxTrainings == 24

MaxIntervals == 1

MODEL_TTL_MS == 30 * MinuteMs

\* the period of the cleanup timer
CleanupMs == 5 * MinuteMs

\* the IP of the client that sends request number n + 1
CrowdIP(n) == (n \div RateLimit.trainCustom.maxReqs) + 1

CrowdInit ==
  /\ secret = FALSE
  /\ now = 0
  /\ rateLimits = <<>>
  /\ db = <<>>
  /\ activeTrainings = 0
  /\ customModels = {}
  /\ fits = <<>>
  /\ issued = 0
  /\ passed = [ip \in 1..CrowdIP(MaxTrainings) |-> [e \in Endpoints |-> <<>>]]
  /\ served = 0
  /\ EngineIdle
  /\ HeapIdle
  /\ DatasetsIdle
  /\ LayerIdle

\* the next client request to /api/train-custom
CrowdTrainCustom(text) ==
  /\ served < MaxTrainings
  /\ TrainCustomHandler(CrowdIP(served), text, "none")

\* the models the cleanup timer leaves in the map at time `at'
Unexpired(models, at) == {m \in models : ~(at - m.createdAt > MODEL_TTL_MS)}

\* five more minutes pass and the callback of setInterval runs
Cleanup ==
  /\ now < MaxIntervals * CleanupMs
  /\ now' = now + CleanupMs
  /\ customModels' = Unexpired(customModels, now + CleanupMs)
  /\ UNCHANGED <<secret, rateLimits, db, activeTrainings, fits, issued, passed,
                 served>>
  /\ UNCHANGED outsideServer

CrowdNext ==
  \/ \E text \in {"usable", "short", "noString"} : CrowdTrainCustom(text)
  \/ \E i \in 1..MAX_CONCURRENT_TRAININGS, fulfilled \in BOOLEAN :
       FitSettles(i, fulfilled)
  \/ Cleanup

SpecCrowd == CrowdInit /\ [][CrowdNext]_vars

(***************************************************************************)
(* One Layer object used directly by a caller, outside any network: the    *)
(* caller makes up to MaxTrace method calls in any order.                  *)
(*   layer   the Layer object                                              *)
(*   trace   the calls made so far, each with its arguments, the object    *)
(*           before and after it, the value returned and whether it threw  *)
(***************************************************************************)
MaxTrace == 4

\* new Layer(inputSize, outputSize, activation) as the caller constructs it
LayerShapes == {<<2, 1, "linear">>, <<1, 2, "relu">>, <<2, 1, "sigmoid">>}

\* the vectors the caller passes to forward, for a layer of n inputs
LayerInputs(n) == {SubSeq(Coordinates[k], 1, n) : k \in 1..2}

\* the vector the caller passes to backward, for a layer of n outputs
LayerErrors(n) == {SubSeq(e, 1, n) : e \in ErrorPool}

\* the (lr, l2, batchSize) the caller passes to applyGradients
LayerApplyArgs ==
  ApplyArgs \cup {[lr |-> Zero, l2 |-> F(1), batchSize |-> Count(1)],
                  [lr |-> Zero, l2 |-> Zero, batchSize |-> Count(0)]}

NoArgs == [lr |-> Zero, l2 |-> Zero, batchSize |-> Zero]

\* the entry of the trace for method m called on `before'
Made(m, before, arg, args, r) ==
  [m |-> m, arg |-> arg, args |-> args, before |-> before, after |-> r.layer,
   ret |-> r.ret, threw |-> r.threw]

LayerInit ==
  /\ layer \in {NewLayer(s[1], s[2], s[3], Draw, 0) : s \in LayerShapes}
  /\ trace = <<>>
  /\ EngineIdle
  /\ HeapIdle
  /\ DatasetsIdle
  /\ ServerIdle

\* layer.forward(x)
LayerForwardCall(x) ==
  /\ Len(trace) < MaxTrace
  /\ \E r \in {LayerForward(layer, x)} :
         /\ layer' = r.layer
         /\ trace' = Append(trace, Made("forward", layer, x, NoArgs, r))
  /\ UNCHANGED outsideLayer

\* layer.backward(g)
LayerBackwardCall(g) ==
  /\ Len(trace) < MaxTrace
  /\ \E r \in {LayerBackward(layer, g)} :
         /\ layer' = r.layer
         /\ trace' = Append(trace, Made("backward", layer, g, NoArgs, r))
  /\ UNCHANGED outsideLayer

\* layer.applyGradients(a.lr, a.l2, a.batchSize)
LayerApplyGradientsCall(a) ==
  /\ Len(trace) < MaxTrace
  /\ \E r \in {[layer |-> LayerApplyGradients(layer, a.lr, a.l2, a.batchSize),
                 ret |-> <<>>, threw |-> FALSE]} :
         /\ layer' = r.layer
         /\ trace' = Append(trace, Made("applyGradients", layer, <<>>, a, r))
  /\ UNCHANGED outsideLayer

\* layer.zeroGrad()
LayerZeroGradCall ==
  /\ Len(trace) < MaxTrace
  /\ \E r \in {[layer |-> LayerZeroGrad(layer), ret |-> <<>>, threw |-> FALSE]} :
         /\ layer' = r.layer
         /\ trace' = Append(trace, Made("zeroGrad", layer, <<>>, NoArgs, r))
  /\ UNCHANGED outsideLayer

LayerNext ==
  \/ \E x \in LayerInputs(layer.inputSize) : LayerForwardCall(x)
  \/ \E g \in LayerErrors(layer.outputSize) : LayerBackwardCall(g)
  \/ \E a \in LayerApplyArgs : LayerApplyGradientsCall(a)
  \/ LayerZeroGradCall

SpecLayer == LayerInit /\ [][LayerNext]_vars

(***************************************************************************)
(* Properties.                                                             *)
(***************************************************************************)
Max0(n) == IF n < 0 THEN 0 ELSE n

AllGradsZero == \A i \in DOMAIN net.layers : GradsZero(net.layers[i])

\* the network as its constructor built it
Constructed ==
  NewNetwork(net.topology, net.activationName, net.outputActivationName, Draw)

\* C1: every entry of weightGrads and biasGrads is exactly zero right after
\* construction and right after every applyGradients call (for every lr, l2
\* and batchSize, after any forward/backward calls); hence all accumulators
\* of all layers are zero whenever trainBatch returns.
C1_AccumulatorsZero ==
  /\ net = Constructed => AllGradsZero
  /\ (pc = "idle" /\ result.op = "applyGradients")
       => GradsZero(net.layers[result.count])
  /\ (pc = "idle" /\ result.op = "trainBatch" /\ ~result.threw) => AllGradsZero
  /\ (pc = "train" /\ tr.e >= 1) => AllGradsZero

\* a direct applyGradients call has just consumed a non-zero accumulator:
\* a bias of the layer moved to another finite value
C1_Witness ==
  /\ pc = "idle"
  /\ result.op = "applyGradients"
  /\ \E i \in DOMAIN net.layers[result.count].biases :
       /\ net.layers[result.count].biases[i].k = "fin"
       /\ net.layers[result.count].biases[i]
            # Constructed.layers[result.count].biases[i]

\* the Layer calls of a finished trainBatch over n samples of a network of
\* c layers: zeroGrad, then forward and backward per sample, then exactly one
\* applyGradients per layer, with batchSize n, as the last c calls
FinishedLog(log, c, n) ==
  /\ Len(log) = c + 2 * c * n + c
  /\ \A q \in 1..Len(log) : (log[q].m = "applyGradients") <=> (q > Len(log) - c)
  /\ \A i \in 1..c : log[Len(log) - c + i] = Call("applyGradients", i, n)
  /\ n >= 1 => \A i \in 1..c : log[Len(log) - 2 * c + i].m = "backward"

\* C2: within one trainBatch call no weight or bias changes while the samples
\* are processed; applyGradients is called exactly once on each layer, only
\* after the last sample's backward pass, with batchSize = dataset.length.
C2_ParametersFixedDuringBatch ==
  /\ pc = "trainBatch" =>
       /\ GetWeights(net.layers) = tb.entry
       /\ Len(calls) = Len(net.layers) + 2 * Len(net.layers) * tb.k
       /\ \A q \in 1..Len(calls) : calls[q].m # "applyGradients"
  /\ (pc # "trainBatch" /\ calls # <<>>) =>
       FinishedLog(calls, Len(net.layers), Len(job.data))

\* two samples of a batch are done and their gradients wait in the
\* accumulators, the parameters still being those found on entry
C2_Witness ==
  /\ pc = "trainBatch"
  /\ tb.k >= 2
  /\ ~AllGradsZero

\* C3: the epoch counter is 0 after construction, increases by exactly 1 on
\* every trainBatch call (so train(data, k) raises it by exactly k), never
\* decreases, and no other operation changes it.
C3_EpochCounter ==
  /\ net.epoch = 0
  /\ [][/\ net'.epoch = net.epoch
                + (IF pc = "trainBatch" /\ tb.k = Len(tb.data) THEN 1 ELSE 0)
        /\ (pc = "train" /\ pc' = "idle")
             => net'.epoch = tr.entryEpoch + Max0(tr.epochs)]_vars

\* train(data, MaxCalls) has returned and the counter stands at MaxCalls
C3_Witness ==
  /\ pc = "idle"
  /\ result.op = "train"
  /\ result.count = MaxCalls
  /\ net.epoch = MaxCalls

\* layer i of the network has the shape topology[i] -> topology[i + 1]
ShapeOf(l, inputSize, outputSize) ==
  /\ l.inputSize = inputSize
  /\ l.outputSize = outputSize
  /\ Len(l.weights) = outputSize
  /\ Len(l.weightGrads) = outputSize
  /\ \A i \in 1..outputSize :
       Len(l.weights[i]) = inputSize /\ Len(l.weightGrads[i]) = inputSize
  /\ Len(l.biases) = outputSize
  /\ Len(l.biasGrads) = outputSize

\* C4: after construction and after any sequence of calls,
\* layers.length = topology.length - 1, layer i has inputSize topology[i] and
\* outputSize topology[i+1], weights and weightGrads have outputSize rows of
\* inputSize columns, biases and biasGrads have outputSize entries.
C4_Shapes ==
  /\ Len(net.layers) = Len(net.topology) - 1
  /\ \A i \in 1..Len(net.layers) :
       ShapeOf(net.layers[i], net.topology[i], net.topology[i + 1])
  /\ \A i \in 2..Len(net.layers) :
       net.layers[i].inputSize = net.layers[i - 1].outputSize

\* a trained network of three layers' sizes has just classified a grid
C4_Witness ==
  /\ pc = "idle"
  /\ result.op = "classifyGrid"
  /\ net.epoch >= 1
  /\ Len(net.topology) = 3

\* C5: for every topology and every input, forward returns a vector whose
\* length is the last topology entry, before and after training.
C5_ForwardLength ==
  /\ result.op = "forward" =>
       /\ ~result.threw
       /\ Len(result.vec) = net.topology[Len(net.topology)]
  /\ \A x \in InputPool :
       Len(NetForward(net.layers, x).ret) = net.topology[Len(net.topology)]

\* forward has returned for an input of the wrong length on a trained network
C5_Witness ==
  /\ result.op = "forward"
  /\ net.epoch >= 1
  /\ Len(result.arg) # net.topology[1]
  /\ Len(result.vec) = net.topology[Len(net.topology)]

RECURSIVE TopologyParams(_, _)
\* sum over the first n layers of topology[i] * topology[i+1] + topology[i+1]
TopologyParams(topology, n) ==
  IF n = 0 THEN 0
  ELSE TopologyParams(topology, n - 1)
         + topology[n] * topology[n + 1] + topology[n + 1]

\* C6: paramCount() is the sum over i of topology[i]*topology[i+1] +
\* topology[i+1], and forward, trainBatch, train and classifyGrid do not
\* change its value.
C6_ParamCount ==
  /\ ParamCount(net.layers) = TopologyParams(net.topology, Len(net.topology) - 1)
  /\ result.op = "paramCount" =>
       result.count = TopologyParams(net.topology, Len(net.topology) - 1)

\* paramCount() has returned on a trained network of more than one layer
C6_Witness ==
  /\ result.op = "paramCount"
  /\ net.epoch >= 1
  /\ Len(net.layers) = 2
  /\ result.count = 7

\* the layers with the caches and accumulators their constructors set
Fresh(layers) ==
  [i \in 1..Len(layers) |->
     [layers[i] EXCEPT
        !.cached = FALSE, !.input = <<>>, !.output = <<>>, !.preActivation = <<>>,
        !.biasGrads = [u \in 1..layers[i].outputSize |-> Zero],
        !.weightGrads = [u \in 1..layers[i].outputSize |->
                           [j \in 1..layers[i].inputSize |-> Zero]]]]

\* what forward(x) returns is what it returns with fresh caches and
\* accumulators: it is a function of weights, biases and x alone
ForwardReadsParametersOnly ==
  /\ \A x \in InputPool :
       NetForward(net.layers, x).ret = NetForward(Fresh(net.layers), x).ret
  /\ (pc = "idle" /\ result.op = "forward") =>
       result.vec = NetForward(Fresh(net.layers), result.arg).ret

\* C7: two forward calls with equal inputs return equal outputs whenever no
\* trainBatch or applyGradients ran between them, whatever forward,
\* backward, zeroGrad or classifyGrid calls ran in between: the result
\* depends only on the weights, the biases and the input (first part), and
\* those calls leave the weights and biases as they are (second part).
C7_ForwardDeterministic ==
  /\ []ForwardReadsParametersOnly
  /\ [][(pc = "idle" /\ pc' = "idle" /\ result'.op # "applyGradients")
          => GetWeights(net'.layers) = GetWeights(net.layers)]_vars

\* forward has returned on a network whose accumulators and caches were
\* left non-zero by a direct backward call
C7_Witness ==
  /\ result.op = "forward"
  /\ ~result.threw
  /\ ~AllGradsZero
  /\ direct >= 1

\* C8: train(data, epochs, ...) calls trainBatch exactly `epochs` times, one
\* after another, and returns a history of exactly `epochs` entries whose
\* k-th entry is the loss the k-th trainBatch call returned; with
\* epochs <= 0 it returns an empty history and changes no network state.
C8_TrainHistory ==
  /\ [](/\ pc = "train" =>
             /\ tr.e <= Max0(tr.epochs)
             /\ Len(tr.history) = tr.e
             /\ net.epoch = tr.entryEpoch + tr.e
             /\ tr.e >= 1 => tr.history[tr.e] = net.loss
        /\ (pc = "trainBatch" /\ tr.active) =>
             /\ tr.e < tr.epochs
             /\ Len(tr.history) = tr.e
             /\ net.epoch = tr.entryEpoch + tr.e
        /\ (pc = "idle" /\ result.op = "train") =>
             /\ ~result.threw
             /\ Len(result.vec) = Max0(result.count))
  /\ [][/\ (pc = "idle" /\ pc' = "train") => net' = net
        /\ (pc = "trainBatch" /\ pc' = "train")
             => tr'.history = Append(tr.history, net'.loss)
        /\ (pc = "train" /\ pc' = "trainBatch") => tr' = tr
        /\ (pc = "train" /\ pc' = "idle") =>
             /\ tr.e = Max0(tr.epochs)
             /\ result'.vec = tr.history
             /\ net' = net]_vars

\* train(data, MaxCalls) has returned MaxCalls losses, the last of them the
\* network's current loss
C8_Witness ==
  /\ pc = "idle"
  /\ result.op = "train"
  /\ result.count = MaxCalls
  /\ Len(result.vec) = MaxCalls
  /\ result.vec[MaxCalls] = net.loss

\* C9 as the specification states it: onEpoch is invoked once per epoch,
\* between that epoch's trainBatch and the next, with (epochIndex, loss),
\* epochIndex being the index of the epoch within this train call (0 for the
\* first iteration, restarting on every train call).
C9_IndexWithinCall ==
  tr.active =>
    IF tr.onEpoch
    THEN /\ Len(callbacks) = tr.e
         /\ \A k \in 1..Len(callbacks) :
              callbacks[k] = [epoch |-> k - 1, loss |-> tr.history[k]]
    ELSE callbacks = <<>>

\* C9 as the code behaves: onEpoch is invoked once per epoch, between that
\* epoch's trainBatch and the next, with (this.epoch, loss): the network's
\* cumulative epoch counter after that epoch (the counter at entry of train
\* plus k for the k-th iteration, k from 1), and the loss just returned.
C9_CumulativeEpoch ==
  tr.active =>
    IF tr.onEpoch
    THEN /\ Len(callbacks) = tr.e
         /\ \A k \in 1..Len(callbacks) :
              callbacks[k] = [epoch |-> tr.entryEpoch + k, loss |-> tr.history[k]]
    ELSE callbacks = <<>>

\* onEpoch has been invoked in a train call that began on a network
\* already trained for an epoch
C9_Witness ==
  /\ pc = "train"
  /\ tr.onEpoch
  /\ tr.entryEpoch >= 1
  /\ Len(callbacks) >= 1
  /\ callbacks[1].epoch = tr.entryEpoch + 1

\* the layers with every name outside the registry replaced by "sigmoid"
AsSigmoid(layers) ==
  [i \in 1..Len(layers) |->
     IF layers[i].activationName \in ActivationKeys THEN layers[i]
     ELSE [layers[i] EXCEPT !.activation = "sigmoid", !.activationName = "sigmoid"]]

\* C10: an unrecognized activation or loss name never raises an error and
\* always selects the default: a layer named outside {sigmoid, relu, tanh,
\* linear} computes forward exactly as a sigmoid layer with the same
\* weights, and trainBatch with a loss name that is no registry key computes
\* as mean-squared-error.
C10_UnknownNamesFallBack ==
  /\ result.op \in {"forward", "classifyGrid", "trainBatch", "train"}
       => ~result.threw
  /\ (pc = "idle" /\ result.op = "forward")
       => result.vec = NetForward(AsSigmoid(net.layers), result.arg).ret
  /\ (pc = "trainBatch" /\ tb.lossType \notin LossKeys) => tb.lossFn = "mse"

\* the centre of cell j of `resolution` equal cells between lo and hi:
\* lo + (j + 0.5) * (hi - lo) / resolution
CentreOfCell(lo, hi, resolution, j) ==
  Add(lo, Div(Mul(F(j * Scale + Scale \div 2), Sub(hi, lo)), Count(resolution)))

\* classifyGrid has returned: it made resolution * resolution forward calls,
\* the one of index i * resolution + j on the centre of column j and row i,
\* and returned as many values
GridCallsCellCentres ==
  /\ Len(result.inputs) = result.count * result.count
  /\ Len(result.vec) = result.count * result.count
  /\ \A i \in 0..(result.count - 1) : \A j \in 0..(result.count - 1) :
       result.inputs[i * result.count + j + 1]
         = <<CentreOfCell(result.arg[1], result.arg[2], result.count, j),
             CentreOfCell(result.arg[3], result.arg[4], result.count, i)>>

\* C11 as the specification states it: classifyGrid calls forward exactly
\* resolution * resolution times and returns as many values, the value at
\* index i * resolution + j being the first output of forward on the centre
\* of the cell in column j and row i.
C11_GridHoldsForwardOutputs ==
  (pc = "idle" /\ result.op = "classifyGrid") =>
    /\ ~result.threw
    /\ GridCallsCellCentres
    /\ \A c \in 1..Len(result.vec) :
         result.vec[c]
           = ToNum(At(NetForward(net.layers, result.inputs[c]).ret, 1))

\* C11 as the code behaves: the same calls and the same number of values,
\* the value at index i * resolution + j being the first output of forward
\* on that cell centre converted to single precision, as a Float32Array
\* element stores it.
C11_GridHoldsSinglePrecision ==
  (pc = "idle" /\ result.op = "classifyGrid") =>
    /\ ~result.threw
    /\ GridCallsCellCentres
    /\ \A c \in 1..Len(result.vec) :
         result.vec[c]
           = Float32Num(ToNum(At(NetForward(net.layers, result.inputs[c]).ret, 1)))

\* classifyGrid has returned a grid one of whose values differs from the
\* forward output it was converted from
C11_Witness ==
  /\ pc = "idle"
  /\ result.op = "classifyGrid"
  /\ ~result.threw
  /\ Len(result.vec) = result.count * result.count
  /\ \E c \in 1..Len(result.vec) :
       /\ result.vec[c].k = "fin"
       /\ result.vec[c] # At(NetForward(net.layers, result.inputs[c]).ret, 1)

RECURSIVE LossSum(_, _, _, _)
\* the sum, over the first k samples, of loss.fn(prediction, target) with
\* the predictions the given layers make
LossSum(layers, lossFn, data, k) ==
  IF k = 0 THEN Zero
  ELSE Add(LossSum(layers, lossFn, data, k - 1),
           LossFn(lossFn, NetForward(layers, data[k].input).ret, data[k].target))

\* C15: trainBatch returns totalLoss / dataset.length, totalLoss being the
\* sum of loss.fn(prediction, target) over every sample with predictions
\* made from the parameters as they were before this call's update, and it
\* stores that value as the network's most recent loss.
C15_ReturnedLoss ==
  /\ [](/\ pc = "trainBatch" =>
             /\ GetWeights(net.layers) = tb.entry
             /\ tb.totalLoss = LossSum(net.layers, tb.lossFn, tb.data, tb.k)
        /\ (pc = "idle" /\ result.op = "trainBatch") =>
             /\ ~result.threw
             /\ result.num = net.loss)
  /\ [][(pc = "trainBatch" /\ tb.k = Len(tb.data)) =>
          /\ net'.loss = Div(tb.totalLoss, Count(Len(tb.data)))
          /\ pc' = "idle" => result'.num = net'.loss
          /\ pc' = "train" => tr'.history[Len(tr'.history)] = net'.loss]_vars

\* trainBatch has returned a finite positive average over MaxSamples samples
C15_Witness ==
  /\ pc = "idle"
  /\ result.op = "trainBatch"
  /\ Len(job.data) = MaxSamples
  /\ result.num.k = "fin"
  /\ result.num.v > 0
  /\ result.num = net.loss

\* C16: layers 0..L-3 use the hidden activation and layer L-2 (the last)
\* uses the output activation; a single-layer network uses the output
\* activation for its only layer and ignores the hidden activation.
C16_ActivationPlacement ==
  \A i \in 1..Len(net.layers) :
    /\ net.layers[i].activationName
         = (IF i = Len(net.topology) - 1 THEN net.outputActivationName
            ELSE net.activationName)
    /\ net.layers[i].activation = LookupActivation(net.layers[i].activationName)

\* a network of two layers whose hidden and output activations differ has
\* run forward
C16_Witness ==
  /\ pc = "idle"
  /\ result.op = "forward"
  /\ Len(net.layers) = 2
  /\ net.layers[1].activationName = net.activationName
  /\ net.layers[2].activationName = net.outputActivationName
  /\ net.activationName # net.outputActivationName

\* what can be read through the network object n
NetView(h, n) ==
  [layers |-> LayersView(h, n.layers), epoch |-> n.epoch, loss |-> n.loss]

SampleAfter(prev, lossFn, sample) ==
  TrainBatchSample(prev.layers, lossFn, prev.totalLoss, sample)

RECURSIVE SamplesThrough(_, _, _, _)
\* the layers and the loss total after the first k samples of one trainBatch
SamplesThrough(layers, lossFn, data, k) ==
  IF k = 0 THEN [layers |-> layers, totalLoss |-> Zero]
  ELSE SampleAfter(SamplesThrough(layers, lossFn, data, k - 1), lossFn, data[k])

TrainedFrom(v, s, j, data) ==
  [layers |-> TrainBatchApply(s.layers, j.lr, j.l2, data).layers,
   epoch |-> NextEpoch(v.epoch),
   loss |-> AverageLoss(s.totalLoss, data)]

\* the network v after one trainBatch(data, j.lr, j.lossType, j.l2) that
\* nothing else interferes with
TrainedOnce(v, j, data) ==
  TrainedFrom(v, SamplesThrough(TrainBatchZero(v.layers).layers,
                                LookupLoss(j.lossType), data, Len(data)),
              j, data)

\* the network n as its constructor call returned it
InitialView(n) ==
  [layers |-> IF n = "A" THEN FirstNetwork(nets["A"].topology).layers
              ELSE SecondNetwork(nets["A"].topology, nets["B"].topology).layers,
   epoch |-> 0, loss |-> PosInf]

RECURSIVE AloneAfter(_, _)
\* the network n after k trainBatch calls of a run in which it is the only
\* object the caller ever touches
AloneAfter(n, k) ==
  IF k = 0 THEN InitialView(n)
  ELSE TrainedOnce(AloneAfter(n, k - 1), HeapJob(n), Dataset(MaxSamples, 2))

\* parameters, accumulators, epoch and loss of a network (its caches left out)
Learned(v) ==
  [weights |-> GetWeights(v.layers),
   grads |-> [i \in 1..Len(v.layers) |->
                <<v.layers[i].weightGrads, v.layers[i].biasGrads>>],
   epoch |-> v.epoch, loss |-> v.loss]

\* C12: the array getWeights returns shares no array with the network: what
\* the caller reads through a snapshot is what getWeights copied plus the
\* caller's own writes, whatever was trained since; and after a write into
\* the snapshot's rows and bias vectors both networks hold the parameters
\* their own trainBatch calls gave them.
C12_SnapshotIndependent ==
  /\ snapshot.taken =>
       /\ SnapshotView(heap, snapshot.refs) = snapshot.expect
       /\ SnapshotRefs(snapshot.refs)
            \cap (NetRefs(nets["A"]) \cup NetRefs(nets["B"])) = {}
  /\ last.on = "snapshot" =>
       \A n \in Instances :
         Learned(NetView(heap, nets[n])) = Learned(AloneAfter(n, nets[n].epoch))

\* a snapshot of A that the caller wrote into, A trained since (its first
\* weight differs from the copy) and was the last object operated on
C12_Witness ==
  /\ snapshot.taken
  /\ snapshot.of = "A"
  /\ snapshot.expect[1].biases[1] = Sentinel
  /\ ~running.active
  /\ last.on = "A"
  /\ nets["A"].epoch >= 1
  /\ Deref(heap, nets["A"].layers[1].weights[1])[1] # snapshot.expect[1].weights[1][1]

\* what one step may do to network n: nothing when the step's operation is
\* on another object; one undisturbed trainBatch when n's epoch moved; else
\* (forward, classifyGrid, getWeights on n) only its caches
StepOn(n, before, after, on) ==
  IF on # n THEN after = before
  ELSE IF after.epoch # before.epoch
  THEN after = TrainedOnce(before, HeapJob(n), Dataset(MaxSamples, 2))
  ELSE Learned(after) = Learned(before)

\* C13: two instances share no mutable state: an operation on one network
\* leaves everything of the other unchanged (weights, biases, accumulators,
\* caches, epoch, loss), and under any interleaving each network is in the
\* state that its own trainBatch calls alone produce.
C13_InstancesIndependent ==
  /\ [](\A n \in Instances :
          Learned(NetView(heap, nets[n])) = Learned(AloneAfter(n, nets[n].epoch)))
  /\ [][\A n \in Instances :
          StepOn(n, NetView(heap, nets[n]), NetView(heap', nets'[n]), last'.on)]_vars

\* both networks trained, B last, A was trained and run forward before
C13_Witness ==
  /\ ~running.active
  /\ nets["A"].epoch >= 1
  /\ nets["B"].epoch >= 1
  /\ last.on = "B"
  /\ nets["A"].layers[1].input # Null
  /\ NetRefs(nets["A"]) \cap NetRefs(nets["B"]) = {}

\* C17: training reads the dataset only: after any calls the caller's
\* dataset has the length, order and values it was built with, and no array
\* a layer holds (a cache least of all) is an array of the dataset.
C17_DatasetReadOnly ==
  /\ Len(dataset) = MaxSamples
  /\ DatasetView(heap, dataset) = Dataset(MaxSamples, 2)
  /\ \A n \in Instances :
       DatasetRefs(dataset) \cap NetRefs(nets[n]) = {}

\* both networks were trained on the dataset, and A's first layer caches an
\* equal copy of the last sample's input
C17_Witness ==
  /\ ~running.active
  /\ nets["A"].epoch >= 1
  /\ nets["B"].epoch >= 1
  /\ nets["A"].layers[1].input # Null
  /\ Deref(heap, nets["A"].layers[1].input) = Dataset(MaxSamples, 2)[MaxSamples].input
  /\ nets["A"].layers[1].input # dataset[MaxSamples].input

\* a sample as the contract describes it: an input of two numbers and a
\* target of one element that is 0 or 1
BinarySample(s) ==
  /\ DOMAIN s = {"input", "target"}
  /\ Len(s.input) = 2
  /\ \A j \in 1..2 : s.input[j].k \in {"fin", "inf", "nan"}
  /\ Len(s.target) = 1
  /\ s.target[1] \in {Zero, One}

\* C14: circle(n), xor(n) and checkerboard(n) return exactly n samples,
\* spiral(n) and gaussian(n) exactly 2 * floor(n / 2), for every sample
\* count n >= 0; every sample has an input of 2 numbers and a target of 1
\* element that is 0 or 1.
C14_SampleCounts ==
  generated.kind # "" =>
    /\ Len(generated.data) =
         IF generated.kind \in {"spiral", "gaussian"}
         THEN 2 * (generated.n \div 2) ELSE generated.n
    /\ \A k \in 1..Len(generated.data) : BinarySample(generated.data[k])

\* gaussian called with an odd n, a zero draw skipped by randn, both labels
C14_Witness ==
  /\ generated.kind = "gaussian"
  /\ generated.n = 3
  /\ Random(generated.seed, 0) = Zero
  /\ Len(generated.data) = 2
  /\ generated.data[1].target = <<One>>
  /\ generated.data[2].target = <<Zero>>

\* C18: for every rate-limited endpoint and every ip, no more than maxReqs
\* requests to that endpoint pass the rate check within an interval of
\* length windowMs: of the requests that passed, the one maxReqs places
\* after another is at least windowMs later.
C18_RateLimited ==
  \A ip \in IPs, e \in {"save", "complete", "generate", "trainCustom"} :
    \A i \in 1..Len(passed[ip][e]) :
      i + RateLimit[e].maxReqs <= Len(passed[ip][e]) =>
        passed[ip][e][i + RateLimit[e].maxReqs] - passed[ip][e][i]
          >= RateLimit[e].windowMs

\* C19: when TURNSTILE_SECRET is set, every training that was started
\* (and so every model stored at its end) belongs to a request whose
\* turnstileToken verifyTurnstile accepts.
C19_TurnstileVerified ==
  secret =>
    \A i \in 1..Len(fits) : VerifyTurnstile(secret, fits[i].turnstileToken, TRUE)

\* the calls the log holds for sample s of a batch on a network of c layers:
\* forward on layers 1..c, the first fed the sample's input and each later
\* one the value the layer before returned; then backward on layers c..1,
\* the last layer fed loss.dfn(prediction, target) and each earlier one the
\* value returned by the backward of the layer after it
SampleCalls(log, c, s, sample, lossFn) ==
  /\ \A i \in 1..c :
       /\ log[c + 2 * c * (s - 1) + i].m = "forward"
       /\ log[c + 2 * c * (s - 1) + i].layer = i
       /\ log[c + 2 * c * (s - 1) + i].arg
            = IF i = 1 THEN sample.input
              ELSE log[c + 2 * c * (s - 1) + i - 1].ret
  /\ \A q \in 1..c :
       /\ log[c + 2 * c * (s - 1) + c + q].m = "backward"
       /\ log[c + 2 * c * (s - 1) + c + q].layer = c + 1 - q
       /\ log[c + 2 * c * (s - 1) + c + q].arg
            = IF q = 1
              THEN LossDfn(lossFn, log[c + 2 * c * (s - 1) + c].ret,
                           sample.target)
              ELSE log[c + 2 * c * (s - 1) + c + q - 1].ret

\* C21: within trainBatch, for each sample the forward pass runs through the
\* layers first to last, then backward is called on every layer exactly once
\* in last-to-first order, each layer receiving the value returned by the
\* backward of the layer after it (the last layer receiving
\* loss.dfn(prediction, target)); no layer's forward is called again between
\* its forward and its backward for the same sample.
C21_BackwardAfterForwardPerSample ==
  /\ pc = "trainBatch" =>
       /\ Len(calls) = Len(net.layers) + 2 * Len(net.layers) * tb.k
       /\ \A s \in 1..tb.k :
            SampleCalls(calls, Len(net.layers), s, tb.data[s], tb.lossFn)
  /\ (pc # "trainBatch" /\ calls # <<>>) =>
       /\ Len(calls) = 2 * Len(net.layers)
                         + 2 * Len(net.layers) * Len(job.data)
       /\ \A s \in 1..Len(job.data) :
            SampleCalls(calls, Len(net.layers), s, job.data[s],
                        LookupLoss(job.lossType))

\* the second sample of a batch has just gone forward through both layers of
\* a two-layer network and back from the second layer to the first
C21_Witness ==
  /\ pc = "trainBatch"
  /\ tb.k = 2
  /\ Len(net.layers) = 2
  /\ calls[Len(calls)].m = "backward"
  /\ calls[Len(calls)].layer = 1
  /\ calls[Len(calls) - 1].layer = 2
  /\ calls[Len(calls)].arg = calls[Len(calls) - 1].ret
  /\ calls[Len(calls)].arg # <<>>

\* C28: trainBatch called with an empty dataset leaves every weight and bias
\* of the network unchanged (none becomes non-finite).
C28_EmptyBatchKeepsParameters ==
  [][(pc = "trainBatch" /\ tb.data = <<>> /\ pc' # "trainBatch")
       => GetWeights(net'.layers) = tb.entry]_vars

\* a network of the given layers' shape holding the weights and biases w
\* (as getWeights returns them) and nothing else: no forward cache, every
\* accumulator zero
WithWeights(layers, w) ==
  Fresh([i \in 1..Len(layers) |->
           [layers[i] EXCEPT !.weights = w[i].weights, !.biases = w[i].biases]])

\* what trainBatch leaves and returns once the sample loop ended in r: the
\* weights and biases after applyGradients, and the loss
BatchOutcome(r, lr, l2, data) ==
  [weights |-> GetWeights(TrainBatchApply(r.layers, lr, l2, data).layers),
   loss |-> AverageLoss(r.totalLoss, data)]

\* C26: the result of trainBatch (the new weights and biases and the returned
\* loss) is a function of the weights and biases at entry, the dataset, lr,
\* the loss name and l2 only: accumulators left non-zero by direct backward
\* calls are discarded at entry, and forward caches left by forward or
\* classifyGrid calls made between trainBatch calls change nothing.
C26_TrainBatchDependsOnParametersOnly ==
  [][(pc = "trainBatch" /\ tb.k = Len(tb.data) /\ pc' # "trainBatch")
       => /\ [weights |-> GetWeights(net'.layers), loss |-> net'.loss]
               = BatchOutcome(SamplesThrough(WithWeights(net.layers, tb.entry),
                                             tb.lossFn, tb.data, Len(tb.data)),
                              tb.lr, tb.l2, tb.data)
          /\ pc' = "idle" => result'.num = net'.loss
          /\ pc' = "train" => tr'.history[Len(tr'.history)] = net'.loss]_vars

\* every sample of a batch has been processed by a trainBatch that found
\* non-zero accumulators, left by a direct backward call, on entry
C26_Witness ==
  /\ pc = "trainBatch"
  /\ tb.dirty
  /\ tb.k = Len(tb.data)
  /\ tb.k >= 1
  /\ direct >= 1

RECURSIVE Orders(_)
\* the orders in which the positions in S can be visited
Orders(S) ==
  IF S = {} THEN {<<>>}
  ELSE UNION {{<<x>> \o o : o \in Orders(S \ {x})} : x \in S}

\* C27: in exact arithmetic the update and the loss of a trainBatch call are
\* invariant under any permutation of the dataset.
C27_OrderOfSamplesIrrelevant ==
  (pc = "trainBatch" /\ tb.k = Len(tb.data)) =>
     \A o \in Orders(1..Len(tb.data)) :
        BatchOutcome(SamplesThrough(WithWeights(net.layers, tb.entry), tb.lossFn,
                                    [q \in 1..Len(tb.data) |-> tb.data[o[q]]],
                                    Len(tb.data)),
                     tb.lr, tb.l2, tb.data)
          = BatchOutcome([layers |-> net.layers, totalLoss |-> tb.totalLoss],
                         tb.lr, tb.l2, tb.data)

\* a batch of two different samples has been processed and its gradients
\* wait in the accumulators
C27_Witness ==
  /\ pc = "trainBatch"
  /\ tb.k = Len(tb.data)
  /\ tb.k >= 2
  /\ tb.data[1] # tb.data[2]
  /\ ~AllGradsZero
  /\ tb.totalLoss # Zero

\* layer l as it is before any forward pass: no cache
Uncached(l) ==
  [l EXCEPT !.cached = FALSE, !.input = <<>>, !.output = <<>>,
            !.preActivation = <<>>]

\* the contribution a backward(g) call adds to weightGrads[i][j] of a layer
\* whose cache is that of forward(b) alone
ContributionOf(l, b, g, i, j) ==
  Mul(Delta(LayerForward(Uncached(l), b).layer, g, i), At(b, j))

\* C22: a layer holds one forward cache: after forward(a) then forward(b), a
\* backward(g) call computes its deltas and weight-gradient contributions
\* from b's cache only; nothing of a's pass remains, and no guard rejects or
\* detects this call order.
C22_SingleForwardCache ==
  \A q \in 3..Len(trace) :
     (trace[q - 2].m = "forward" /\ trace[q - 1].m = "forward"
        /\ trace[q].m = "backward")
     => /\ ~trace[q - 1].threw /\ ~trace[q].threw
        /\ trace[q].before.input = trace[q - 1].arg
        /\ trace[q].before
             = LayerForward(Uncached(trace[q - 2].before), trace[q - 1].arg).layer
        /\ \A i \in 1..trace[q].before.outputSize :
             /\ trace[q].after.biasGrads[i]
                  = Add(trace[q].before.biasGrads[i],
                        Delta(LayerForward(Uncached(trace[q - 2].before),
                                           trace[q - 1].arg).layer,
                              trace[q].arg, i))
             /\ \A j \in 1..trace[q].before.inputSize :
                  trace[q].after.weightGrads[i][j]
                    = Add(trace[q].before.weightGrads[i][j],
                          ContributionOf(trace[q - 2].before, trace[q - 1].arg,
                                         trace[q].arg, i, j))

\* forward(a), forward(b) with b different from a, then a backward call that
\* returned and moved a weight accumulator
C22_Witness ==
  /\ Len(trace) >= 3
  /\ trace[Len(trace) - 2].m = "forward"
  /\ trace[Len(trace) - 1].m = "forward"
  /\ trace[Len(trace) - 2].arg # trace[Len(trace) - 1].arg
  /\ trace[Len(trace)].m = "backward"
  /\ ~trace[Len(trace)].threw
  /\ trace[Len(trace)].after.weightGrads # trace[Len(trace)].before.weightGrads

\* the position of the last zeroGrad or applyGradients call among the first
\* n calls, 0 if there is none
RECURSIVE LastReset(_, _)
LastReset(t, n) ==
  IF n = 0 THEN 0
  ELSE IF t[n].m \in {"zeroGrad", "applyGradients"} THEN n
  ELSE LastReset(t, n - 1)

\* the backward calls made since the last zeroGrad or applyGradients
BackwardsSinceReset(t) ==
  {q \in (LastReset(t, Len(t)) + 1)..Len(t) : t[q].m = "backward"}

RECURSIVE DeltaSum(_, _, _, _)
\* the sum, over the backward calls among calls `from'..`to', of the delta of
\* unit i
DeltaSum(t, from, to, i) ==
  IF to < from THEN Zero
  ELSE IF t[to].m # "backward" THEN DeltaSum(t, from, to - 1, i)
  ELSE Add(DeltaSum(t, from, to - 1, i), Delta(t[to].before, t[to].arg, i))

RECURSIVE DeltaInputSum(_, _, _, _, _)
\* the sum, over the same calls, of delta_i times the j-th input cached at the
\* time of the call
DeltaInputSum(t, from, to, i, j) ==
  IF to < from THEN Zero
  ELSE IF t[to].m # "backward" THEN DeltaInputSum(t, from, to - 1, i, j)
  ELSE Add(DeltaInputSum(t, from, to - 1, i, j),
           Mul(Delta(t[to].before, t[to].arg, i), At(t[to].before.input, j)))

\* C23: backward only ever adds to the accumulators: after k backward calls
\* since the last zeroGrad or applyGradients, each made on a layer that holds
\* a forward cache, biasGrads[i] equals the sum of the k deltas of unit i and
\* weightGrads[i][j] equals the sum over those calls of delta_i times the
\* j-th input cached at the time of each call.
C23_BackwardAccumulates ==
  (\A q \in BackwardsSinceReset(trace) : trace[q].before.cached)
  => \A i \in 1..layer.outputSize :
       /\ layer.biasGrads[i]
            = DeltaSum(trace, LastReset(trace, Len(trace)) + 1, Len(trace), i)
       /\ \A j \in 1..layer.inputSize :
            layer.weightGrads[i][j]
              = DeltaInputSum(trace, LastReset(trace, Len(trace)) + 1,
                              Len(trace), i, j)

\* two backward calls since the last reset, made on two different caches,
\* have both left their share in a weight accumulator
C23_Witness ==
  /\ Cardinality(BackwardsSinceReset(trace)) >= 2
  /\ \A q \in BackwardsSinceReset(trace) :
       /\ trace[q].before.cached
       /\ trace[q].after.weightGrads # trace[q].before.weightGrads
  /\ \E q, r \in BackwardsSinceReset(trace) :
       trace[q].before.input # trace[r].before.input

\* C25: applyGradients(lr, l2, batchSize) sets each weight to
\* w - lr * (weightGrad / batchSize + l2 * w) and each bias to
\* b - lr * (biasGrad / batchSize), l2 never affecting a bias; with lr = 0
\* all weights and biases are unchanged while the accumulators are zeroed.
C25_ZeroRateKeepsParameters ==
  \A q \in 1..Len(trace) :
     (trace[q].m = "applyGradients" /\ trace[q].args.lr = Zero)
     => /\ trace[q].after.weights = trace[q].before.weights
        /\ trace[q].after.biases = trace[q].before.biases
        /\ GradsZero(trace[q].after)

\* the part of C25 that gives the update of a call: each weight and each
\* bias as stated, and the bias the same whatever l2 is
ApplyGradientsAsStated ==
  \A q \in 1..Len(trace) :
     trace[q].m = "applyGradients"
     => \A i \in 1..trace[q].before.outputSize :
          /\ trace[q].after.biases[i]
               = Sub(trace[q].before.biases[i],
                     Mul(trace[q].args.lr,
                         Div(trace[q].before.biasGrads[i],
                             trace[q].args.batchSize)))
          /\ \A j \in 1..trace[q].before.inputSize :
               trace[q].after.weights[i][j]
                 = Sub(trace[q].before.weights[i][j],
                       Mul(trace[q].args.lr,
                           Add(Div(trace[q].before.weightGrads[i][j],
                                   trace[q].args.batchSize),
                               Mul(trace[q].args.l2,
                                   trace[q].before.weights[i][j]))))

\* the forward cache of every layer
Caches(layers) ==
  [i \in 1..Len(layers) |->
     [cached |-> layers[i].cached, input |-> layers[i].input,
      output |-> layers[i].output, preActivation |-> layers[i].preActivation]]

\* C24: weights and biases are modified only by applyGradients (directly or
\* at the end of trainBatch): Layer.forward, Layer.backward, Layer.zeroGrad,
\* NeuralNetwork.forward, classifyGrid, getWeights and paramCount leave every
\* weight and bias unchanged, and backward and zeroGrad also leave the
\* forward cache unchanged.
C24_OnlyApplyGradientsWrites ==
  [][/\ GetWeights(net'.layers) # GetWeights(net.layers)
          => \/ pc = "idle" /\ pc' = "idle" /\ result'.op = "applyGradients"
             \/ pc = "trainBatch" /\ tb.k = Len(tb.data) /\ pc' # "trainBatch"
     /\ (pc = "idle" /\ pc' = "idle"
           /\ result'.op \in {"forward", "backward", "zeroGrad", "classifyGrid",
                              "getWeights", "paramCount"})
          => GetWeights(net'.layers) = GetWeights(net.layers)
     /\ (pc = "idle" /\ pc' = "idle" /\ result'.op \in {"backward", "zeroGrad"})
          => Caches(net'.layers) = Caches(net.layers)]_vars

\* a direct backward call has returned on a layer that holds a cache: the
\* accumulators moved, the cache is still there and the weights and biases
\* are those of construction
C24_Witness ==
  /\ pc = "idle"
  /\ result.op = "backward"
  /\ ~result.threw
  /\ ~AllGradsZero
  /\ net.layers[result.count].cached
  /\ GetWeights(net.layers) = GetWeights(Constructed.layers)

\* lengths of texts the handler accepts, around the places where step and
\* the cut at maxSamples change
UsableLengths == {100, 101, 520, 521, 522, 1020, 1021, 1022, 25000, 50000}

\* a string the handler accepts always gives at least the 20 samples the
\* handler asks for, the shortest giving the fewest
SamplesSuffice ==
  \A n \in UsableLengths : SampleCount(n) >= 20 /\ SampleCount(n) >= SampleCount(UsableLength)

C30_AtMostTwentyModels == Cardinality(customModels) <= MAX_CUSTOM_MODELS

====
